---- MODULE Spec2Model ----
(***************************************************************************)
(* Protocol framing and message translation of the laboratory-instrument  *)
(* gateway: the MLLP (HL7) and ASTM byte framers, the HL7 and ASTM        *)
(* parsers, the HL7 ACK generator and the per-connection session loop.    *)
(*                                                                         *)
(* A byte is an integer 0..255, a Go string a sequence of bytes.  The     *)
(* repository holds several generations of the same gateway; `prog` names *)
(* the listener that runs and Gen(prog) the generation of its parser and  *)
(* ACK generator:                                                          *)
(*   "tcp"          handleConnection        main.go:97, :538, test.go:172 *)
(*   "hl7"          StartHL7Listener        main.go:1244                  *)
(*   "hl7_p0"       StartHL7Listener        unnamed/part_000:204          *)
(*   "astm"         StartASTMListener       main.go:1102, part_000:68     *)
(*   "combined"     StartCombinedListener   main.go:1022                  *)
(*   "combined_p1"  StartCombinedListener   unnamed/part_001:118          *)
(***************************************************************************)
EXTENDS Integers, Sequences, FiniteSets, TLC

VARIABLES
    prog,           \* which listener program runs on this connection / port
    alive,          \* the worker loop has not returned
    failed,         \* a read has returned EOF or an error that is no timeout
    reads,          \* number of transport reads that delivered data
    rdbuf,          \* bufio.Reader: bytes read from the conn, not yet consumed
    inMessage,      \* inMessage / inHL7Message
    messageBuffer,  \* messageBuffer / hl7MessageBuffer
    frameBuffer,    \* frameBuffer / astmFrameBuffer
    received,       \* history: every byte the framer has consumed, in order
    log,            \* history: completed payloads, transport writes, sink calls
    ref,            \* the same bytes delivered to the same listener one per read
    now,            \* the wall clock read by time.Now()
    gen,            \* code generation of the pure functions under call
    message,        \* the text handed to a parser / the ACK generator
    results,        \* what the last parser call returned
    ack,            \* what the last generateHL7ACK call returned
    called,         \* the function applied last
    conns,          \* the connections of the TCP server, each with its worker
    worker,         \* a worker and the sink call it makes, step by step
    timeouts,       \* history: where on the client's conns a read deadline passed
    client          \* startClient: its loop, and the session of its connection

vars == <<prog, alive, failed, reads, rdbuf, inMessage, messageBuffer,
          frameBuffer,
          received, log, ref, now, gen, message, results, ack, called,
          conns, worker, timeouts, client>>

sessionVars == <<prog, alive, failed, reads, rdbuf, inMessage, messageBuffer,
                 frameBuffer, received, log, ref>>

callVars == <<gen, message, results, ack, called>>

connVars == <<conns>>

sinkVars == <<worker>>

gapVars == <<timeouts>>

clientVars == <<client>>

---------------------------------------------------------------------------
(* Bounds of the model *)

\* transport reads that deliver data, per connection
MaxReads == 3
\* read deadlines that pass on the connections of the client
MaxTimeouts == 1
\* connection attempts of the client
MaxDials == 3
\* segments / records of a text handed to the pure functions
MaxSegs == 3
\* ticks of the wall clock
MaxClock == 2
\* connections the TCP server accepts
MaxConns == 2
\* transport reads that deliver data, per connection of the TCP server
MaxConnReads == 2
\* sink calls of the worker whose calls are followed step by step
MaxSinkCalls == 3

---------------------------------------------------------------------------
(* Control characters *)

ENQ == 5
ACK == 6
NAK == 21
EOT == 4
STX == 2
ETX == 3
ETB == 23
CR == 13
LF == 10
VT == 11
FS == 28

---------------------------------------------------------------------------
(* Text literals: Bytes("MSH") is the byte string of a Go string literal.   *)
(* Printable lists the characters 32..126 in order; the place of the       *)
(* backquote (96), which a TLA+ string cannot hold, is filled by a space.  *)

Printable ==
    " !\"#$%&'()*+,-./0123456789:;<=>?@ABCDEFGHIJKLMNOPQRSTUVWXYZ[\\]^_ abcdefghijklmnopqrstuvwxyz{|}~"

Ord(c) == 31 + (CHOOSE i \in 1..Len(Printable) : SubSeq(Printable, i, i) = c)

Bytes(s) == [i \in 1..Len(s) |-> Ord(SubSeq(s, i, i))]

PIPE == Bytes("|")[1]

CARET == Bytes("^")[1]

LitDash == Bytes("-")

LitT == Bytes("T")

LitColon == Bytes(":")

LitZ == Bytes("Z")

Midnight == Bytes("000000")

\* the clock starts at 2026-01-01 00:00:00 and ticks in seconds
NowPrefixRFC3339 == Bytes("2026-01-01T00:00:0")

NowPrefixCompact == Bytes("2026010100000")

LitACK == Bytes("ACK")

LitAL == Bytes("AL")

LitMSA == Bytes("MSA")

LitAA == Bytes("AA")

LitASTM == Bytes("ASTM")

RecP == Bytes("P")

RecO == Bytes("O")

RecR == Bytes("R")

---------------------------------------------------------------------------
(* The Go standard library functions the gateway calls *)

\* the k-th smallest element of the set of positions P
NthPos(P, k) == CHOOSE i \in P : Cardinality({j \in P : j < i}) = k - 1

\* strings.Split(s, sep) for a one-byte separator: never empty, [""] for ""
Split(s, sep) ==
    LET P == {i \in 1..Len(s) : s[i] = sep}
        n == Cardinality(P)
    IN  [k \in 1..(n + 1) |->
            SubSeq(s, IF k = 1 THEN 1 ELSE NthPos(P, k - 1) + 1,
                      IF k = n + 1 THEN Len(s) ELSE NthPos(P, k) - 1)]

\* strings.ReplaceAll(s, "\r\n", "\r"): every LF directly after a CR goes
ReplaceAll(s) ==
    LET K == {i \in 1..Len(s) : ~(s[i] = LF /\ i > 1 /\ s[i - 1] = CR)}
    IN  [k \in 1..Cardinality(K) |-> s[NthPos(K, k)]]

\* unicode.IsSpace on a byte: \t \n \v \f \r and the space
IsSpace(b) == b \in {9, 10, 11, 12, 13, 32}

\* strings.TrimSpace
TrimSpace(s) ==
    LET keep == {i \in 1..Len(s) : ~IsSpace(s[i])}
    IN  IF keep = {} THEN <<>>
        ELSE SubSeq(s, CHOOSE i \in keep : \A j \in keep : i <= j,
                       CHOOSE i \in keep : \A j \in keep : j <= i)

\* strings.HasPrefix
HasPrefix(s, p) == Len(s) >= Len(p) /\ SubSeq(s, 1, Len(p)) = p

---------------------------------------------------------------------------
(* The wall clock and the two time layouts *)

\* the decimal digit n as a byte
Digit(n) == 48 + n

IsDigit(b) == b >= 48 /\ b <= 57

\* time.Now().Format(time.RFC3339) when the clock reads t
NowRFC3339(t) == NowPrefixRFC3339 \o <<Digit(t)>> \o LitZ

\* time.Now().Format("20060102150405") when the clock reads t
NowCompact(t) == NowPrefixCompact \o <<Digit(t)>>

\* the two-digit number at s[i], s[i+1]
Num2(s, i) == (s[i] - 48) * 10 + (s[i + 1] - 48)

Num4(s, i) == Num2(s, i) * 100 + Num2(s, i + 2)

\* time.daysIn
daysIn(month, year) ==
    IF month = 2
    THEN IF year % 4 = 0 /\ (year % 100 # 0 \/ year % 400 = 0) THEN 29 ELSE 28
    ELSE IF month \in {4, 6, 9, 11} THEN 30 ELSE 31

\* time.Parse("20060102", s) returns no error (s has 8 bytes)
ParsesAsDate(s) ==
    /\ \A i \in 1..8 : IsDigit(s[i])
    /\ Num2(s, 5) >= 1 /\ Num2(s, 5) <= 12
    /\ Num2(s, 7) >= 1 /\ Num2(s, 7) <= daysIn(Num2(s, 5), Num4(s, 1))

\* time.Parse("20060102150405", s) returns no error (s has 14 bytes)
ParsesAsDateTime(s) ==
    /\ ParsesAsDate(SubSeq(s, 1, 8))
    /\ \A i \in 9..14 : IsDigit(s[i])
    /\ Num2(s, 9) < 24 /\ Num2(s, 11) < 60 /\ Num2(s, 13) < 60

\* t.Format(time.RFC3339) of a time parsed (in UTC) from date digits d and
\* clock digits c
FormatRFC3339(d, c) ==
    SubSeq(d, 1, 4) \o LitDash \o SubSeq(d, 5, 6) \o LitDash
        \o SubSeq(d, 7, 8) \o LitT \o SubSeq(c, 1, 2) \o LitColon
        \o SubSeq(c, 3, 4) \o LitColon \o SubSeq(c, 5, 6) \o LitZ

---------------------------------------------------------------------------
(* HL7 parsing.  g is the generation of the code: "main" (main.go and     *)
(* test.go, all alike), "p0" (unnamed/part_000), "p1" (unnamed/part_001). *)

Generations == {"main", "p0", "p1"}

MSH == Bytes("MSH")

PID == Bytes("PID")

OBR == Bytes("OBR")

OBX == Bytes("OBX")

\* index counts from 0 as in the source
getHL7Field(g, fields, index) ==
    IF index >= Len(fields) THEN <<>>
    ELSE IF g = "p0" THEN fields[index + 1]
    ELSE TrimSpace(fields[index + 1])

parseHL7Component(g, field, componentIndex) ==
    LET components == Split(field, CARET)
    IN  IF componentIndex >= Len(components) THEN <<>>
        ELSE IF g = "p0" THEN components[componentIndex + 1]
        ELSE TrimSpace(components[componentIndex + 1])

parseHL7DateTime(g, field, t) ==
    LET hl7DateTime == IF g = "p0" THEN field ELSE TrimSpace(field)
    IN  IF Len(hl7DateTime) < 8 THEN NowRFC3339(t)
        ELSE IF Len(hl7DateTime) >= 14
                /\ ParsesAsDateTime(SubSeq(hl7DateTime, 1, 14))
        THEN FormatRFC3339(SubSeq(hl7DateTime, 1, 8),
                           SubSeq(hl7DateTime, 9, 14))
        ELSE IF ParsesAsDate(SubSeq(hl7DateTime, 1, 8))
        THEN FormatRFC3339(SubSeq(hl7DateTime, 1, 8), Midnight)
        ELSE NowRFC3339(t)

\* the map built for one OBX segment
Observation(g, fields, ctx, t) ==
    IF g = "p1"
    THEN [patient_id |-> ctx.patientID,
          patient_name |-> ctx.patientName,
          accession_number |-> ctx.accessionNumber,
          message_id |-> ctx.messageControlID,
          test_code |-> parseHL7Component(g, getHL7Field(g, fields, 3), 0),
          test_name |-> parseHL7Component(g, getHL7Field(g, fields, 3), 1),
          value |-> getHL7Field(g, fields, 5),
          units |-> getHL7Field(g, fields, 6),
          timestamp |-> NowRFC3339(t)]
    ELSE [patient_id |-> ctx.patientID,
          patient_name |-> ctx.patientName,
          accession_number |-> ctx.accessionNumber,
          message_id |-> ctx.messageControlID,
          observation_id |-> getHL7Field(g, fields, 1),
          value_type |-> getHL7Field(g, fields, 2),
          test_code |-> parseHL7Component(g, getHL7Field(g, fields, 3), 0),
          test_name |-> parseHL7Component(g, getHL7Field(g, fields, 3), 1),
          value |-> getHL7Field(g, fields, 5),
          units |-> getHL7Field(g, fields, 6),
          reference_range |-> getHL7Field(g, fields, 7),
          abnormal_flags |-> getHL7Field(g, fields, 8),
          result_status |-> getHL7Field(g, fields, 11),
          timestamp |-> parseHL7DateTime(g, getHL7Field(g, fields, 14), t)]

\* a context in which the first PID segment of the message wins
HL7ContextFirstPID(g, fields, ctx) ==
    IF fields[1] = MSH
    THEN [ctx EXCEPT !.messageControlID = getHL7Field(g, fields, 9)]
    ELSE IF fields[1] = PID /\ ctx.patientID = <<>>
    THEN [ctx EXCEPT !.patientID = getHL7Field(g, fields, 3),
                     !.patientName = getHL7Field(g, fields, 5)]
    ELSE IF fields[1] = OBR
    THEN [ctx EXCEPT !.accessionNumber = getHL7Field(g, fields, 2)]
    ELSE ctx

\* the context a PID / OBR / MSH segment leaves behind
HL7Context(g, fields, ctx) ==
    LET segmentType == fields[1]
    IN  IF segmentType = MSH
        THEN [ctx EXCEPT !.messageControlID = getHL7Field(g, fields, 9)]
        ELSE IF segmentType = PID
        THEN [ctx EXCEPT !.patientID = getHL7Field(g, fields, 3),
                         !.patientName = getHL7Field(g, fields, 5)]
        ELSE IF segmentType = OBR
        THEN [ctx EXCEPT !.accessionNumber = getHL7Field(g, fields, 2)]
        ELSE ctx

\* the segment as the loop body sees it
HL7Segment(g, raw) == IF g = "p0" THEN raw ELSE TrimSpace(raw)

\* a loop that returns at the first segment with fewer than six fields
RECURSIVE parseHL7LoopStrict(_, _, _, _, _)
parseHL7LoopStrict(g, segments, i, ctx, t) ==
    IF i > Len(segments) THEN <<>>
    ELSE IF Len(HL7Segment(g, segments[i])) = 0
    THEN parseHL7LoopStrict(g, segments, i + 1, ctx, t)
    ELSE IF Len(Split(HL7Segment(g, segments[i]), PIPE)) < 6 THEN <<>>
    ELSE IF Split(HL7Segment(g, segments[i]), PIPE)[1] = OBX
    THEN <<Observation(g, Split(HL7Segment(g, segments[i]), PIPE), ctx, t)>>
             \o parseHL7LoopStrict(g, segments, i + 1, ctx, t)
    ELSE parseHL7LoopStrict(g, segments, i + 1,
                            HL7Context(g, Split(HL7Segment(g, segments[i]),
                                                PIPE), ctx), t)

\* the for loop of parseHL7 from segment i on
RECURSIVE parseHL7Loop(_, _, _, _, _)
parseHL7Loop(g, segments, i, ctx, t) ==
    IF i > Len(segments) THEN <<>>
    ELSE LET segment == HL7Segment(g, segments[i])
             fields == Split(segment, PIPE)
         IN  IF Len(segment) = 0 THEN parseHL7Loop(g, segments, i + 1, ctx, t)
             ELSE IF fields[1] = OBX
             THEN <<Observation(g, fields, ctx, t)>>
                      \o parseHL7Loop(g, segments, i + 1, ctx, t)
             ELSE parseHL7Loop(g, segments, i + 1,
                               HL7Context(g, fields, ctx), t)

\* the segments both parseHL7 and generateHL7ACK iterate over
HL7Segments(g, text) == Split(IF g = "p0" THEN text ELSE ReplaceAll(text), CR)

parseHL7(g, text, t) ==
    parseHL7Loop(g, HL7Segments(g, text), 1,
                 [patientID |-> <<>>, patientName |-> <<>>,
                  accessionNumber |-> <<>>, messageControlID |-> <<>>], t)

---------------------------------------------------------------------------
(* HL7 ACK generation *)

\* what fmt.Sprintf appends for an argument no verb consumes
ExtraArg == Bytes("%!(EXTRA string=|)")

\* the fields of the first segment that starts with MSH, nil (<<>>) if none
mshFieldsOf(g, segments) ==
    LET starts(i) == IF g = "p0" THEN HasPrefix(segments[i], MSH)
                     ELSE HasPrefix(TrimSpace(segments[i]), MSH)
        found == {i \in 1..Len(segments) : starts(i)}
        first == CHOOSE i \in found : \A j \in found : i <= j
    IN  IF found = {} THEN <<>>
        ELSE IF g = "main" THEN Split(TrimSpace(segments[first]), PIPE)
        ELSE Split(segments[first], PIPE)

\* the text of the acknowledgment built from usable MSH fields
ackText(g, mshFields, t) ==
    LET encodingChars == getHL7Field(g, mshFields, 1)
        sendingApp == getHL7Field(g, mshFields, 2)
        sendingFacility == getHL7Field(g, mshFields, 3)
        receivingApp == getHL7Field(g, mshFields, 4)
        receivingFacility == getHL7Field(g, mshFields, 5)
        messageControlID == getHL7Field(g, mshFields, 9)
        sep == <<PIPE>>
    IN  IF g = "p1"
        THEN MSH \o sep \o encodingChars \o sep \o receivingApp \o sep
                 \o receivingFacility \o sep \o sendingApp \o sep
                 \o sendingFacility \o sep \o NowCompact(t) \o sep
                 \o LitACK \o sep \o messageControlID \o sep
                 \o LitAL \o sep \o <<CR>>
                 \o LitMSA \o sep \o LitAA \o sep \o messageControlID
                 \o sep
        ELSE MSH \o sep \o encodingChars \o sep \o receivingApp \o sep
                 \o receivingFacility \o sep \o sendingApp \o sep
                 \o sendingFacility \o LitACK \o sep \o NowCompact(t)
                 \o sep \o LitAL \o sep \o ExtraArg \o <<CR>>
                 \o LitMSA \o sep \o LitAA \o sep
                 \o messageControlID
                 \o (IF g = "p0" THEN sep ELSE <<>>)

\* the number of MSH fields below which no ACK is built
minMshFields(g) == IF g = "p0" THEN 1 ELSE 10

generateHL7ACK(g, originalMessage, t) ==
    LET mshFields == mshFieldsOf(g, HL7Segments(g, originalMessage))
    IN  IF Len(mshFields) < minMshFields(g) THEN <<>>
        ELSE ackText(g, mshFields, t)

---------------------------------------------------------------------------
(* ASTM parsing (the same in every generation) *)

getASTMField(fields, index) ==
    IF index >= Len(fields) THEN <<>> ELSE fields[index + 1]

\* the map built for one R record
Result(fields, ctx, t) ==
    [protocol |-> LitASTM,
     patient_id |-> ctx.patientID,
     sample_id |-> ctx.sampleID,
     test_code |-> getASTMField(fields, 2),
     value |-> getASTMField(fields, 3),
     units |-> getASTMField(fields, 4),
     flags |-> getASTMField(fields, 6),
     timestamp |-> NowRFC3339(t)]

\* a context in which an O record also forgets the patient
ASTMContextForgetful(fields, ctx) ==
    IF fields[1] = RecP
    THEN [ctx EXCEPT !.patientID = getASTMField(fields, 2)]
    ELSE IF fields[1] = RecO
    THEN [patientID |-> <<>>, sampleID |-> getASTMField(fields, 2)]
    ELSE ctx

\* the context a P / O record leaves behind
ASTMContext(fields, ctx) ==
    LET recordType == fields[1]
    IN  IF recordType = RecP
        THEN [ctx EXCEPT !.patientID = getASTMField(fields, 2)]
        ELSE IF recordType = RecO
        THEN [ctx EXCEPT !.sampleID = getASTMField(fields, 2)]
        ELSE ctx

\* the for loop of parseASTM from line i on
RECURSIVE parseASTMLoop(_, _, _, _)
parseASTMLoop(lines, i, ctx, t) ==
    IF i > Len(lines) THEN <<>>
    ELSE LET line == lines[i]
             fields == Split(line, PIPE)
         IN  IF Len(line) = 0 THEN parseASTMLoop(lines, i + 1, ctx, t)
             ELSE IF fields[1] = RecR
             THEN <<Result(fields, ctx, t)>>
                      \o parseASTMLoop(lines, i + 1, ctx, t)
             ELSE parseASTMLoop(lines, i + 1, ASTMContext(fields, ctx), t)

parseASTM(data, t) ==
    parseASTMLoop(Split(data, CR), 1,
                  [patientID |-> <<>>, sampleID |-> <<>>], t)

---------------------------------------------------------------------------
(* The session: framer state and what the worker did, in order.           *)
(* A log entry is <<kind, data, ok>>:                                      *)
(*   <<"hl7", text, TRUE>>    a completed message handed to               *)
(*                            processHL7Message                            *)
(*   <<"astm", text, TRUE>>   a completed frame handed to processASTMFrame *)
(*   <<"write", bytes, ok>>   one Write on the conn / port, ok its outcome *)
(*   <<"sink", batch, ok>>    one call of the result sink, ok its outcome  *)
(* st is [inMessage, messageBuffer, frameBuffer, log]; env is             *)
(* [wok, sok, t]: whether writes and sink calls succeed, and the clock.   *)

Programs == {"tcp", "hl7", "hl7_p0", "astm", "combined", "combined_p1"}

\* the generation of the parser and ACK generator a listener is built with
Gen(p) == IF p = "hl7_p0" THEN "p0" ELSE IF p = "combined_p1" THEN "p1"
          ELSE "main"

InitialSession ==
    [inMessage |-> FALSE, messageBuffer |-> <<>>, frameBuffer |-> <<>>,
     log |-> <<>>]

\* the MLLP envelope put around an ACK
ackBytes(text) == <<VT>> \o text \o <<FS, CR>>

\* part_000 writes the envelope whatever generateHL7ACK returned
writesAck(p, text) == p = "hl7_p0" \/ text # <<>>

\* a writer that repeats the enveloped ACK when the first write fails
writeAckAgain(p, lg, reply, env) ==
    IF writesAck(p, reply)
    THEN IF env.wok
         THEN Append(lg, <<"write", ackBytes(reply), TRUE>>)
         ELSE Append(Append(lg, <<"write", ackBytes(reply), FALSE>>),
                     <<"write", ackBytes(reply), FALSE>>)
    ELSE lg

\* conn.Write / port.Write of the enveloped ACK, when one is written
writeAck(p, lg, reply, env) ==
    IF writesAck(p, reply)
    THEN Append(lg, <<"write", ackBytes(reply), env.wok>>)
    ELSE lg

\* a forwarder without the emptiness test: the sink is called for every
\* message, with an empty batch when nothing was parsed
sendToServerAlways(lg, parsed, env) ==
    Append(lg, <<"sink", parsed, env.sok>>)

\* a forwarder that offers a failed batch to the sink a second time
sendToServerRetrying(lg, parsed, env) ==
    IF Len(parsed) > 0
    THEN IF env.sok
         THEN Append(lg, <<"sink", parsed, TRUE>>)
         ELSE Append(Append(lg, <<"sink", parsed, FALSE>>),
                     <<"sink", parsed, FALSE>>)
    ELSE lg

\* the result sink is called when the parser returned results
sendToServer(lg, parsed, env) ==
    IF Len(parsed) > 0 THEN Append(lg, <<"sink", parsed, env.sok>>) ELSE lg

\* a session that forwards the results first and acknowledges afterwards
processHL7MessageForwardFirst(p, lg, text, env) ==
    writeAck(p, sendToServer(Append(lg, <<"hl7", text, TRUE>>),
                             parseHL7(Gen(p), text, env.t), env),
             generateHL7ACK(Gen(p), text, env.t), env)

\* a session that forwards the results only after the ACK has gone out
processHL7MessageAckFirst(p, lg, text, env) ==
    IF writesAck(p, generateHL7ACK(Gen(p), text, env.t)) /\ ~env.wok
    THEN Append(Append(lg, <<"hl7", text, TRUE>>),
                <<"write", ackBytes(generateHL7ACK(Gen(p), text, env.t)),
                  FALSE>>)
    ELSE sendToServer(writeAck(p, Append(lg, <<"hl7", text, TRUE>>),
                               generateHL7ACK(Gen(p), text, env.t), env),
                      parseHL7(Gen(p), text, env.t), env)

processHL7Message(p, lg, text, env) ==
    sendToServer(writeAck(p, Append(lg, <<"hl7", text, TRUE>>),
                         generateHL7ACK(Gen(p), text, env.t), env),
                parseHL7(Gen(p), text, env.t), env)

processASTMFrame(lg, raw, env) ==
    sendToServer(Append(lg, <<"astm", raw, TRUE>>), parseASTM(raw, env.t), env)

\* a switch that leaves a completed message in the buffer at the end byte
\* and processes it only when the next start byte arrives
handleConnectionByteDeferred(p, st, b, env) ==
    IF b = VT
    THEN [st EXCEPT !.inMessage = TRUE, !.messageBuffer = <<>>,
                    !.log = IF ~st.inMessage /\ st.messageBuffer # <<>>
                            THEN processHL7Message(p, st.log,
                                                   st.messageBuffer, env)
                            ELSE st.log]
    ELSE IF b = FS
    THEN IF st.inMessage THEN [st EXCEPT !.inMessage = FALSE] ELSE st
    ELSE IF b = LF THEN st
    ELSE IF st.inMessage
    THEN [st EXCEPT !.messageBuffer = Append(st.messageBuffer, b)]
    ELSE st

\* a switch that never empties the buffer: not at the start byte, not after
\* the end byte
handleConnectionByteMerging(p, st, b, env) ==
    IF b = VT THEN [st EXCEPT !.inMessage = TRUE]
    ELSE IF b = FS
    THEN IF st.inMessage
         THEN [st EXCEPT !.inMessage = FALSE,
                         !.log = processHL7Message(p, st.log,
                                                   st.messageBuffer, env)]
         ELSE st
    ELSE IF b = LF THEN st
    ELSE IF st.inMessage
    THEN [st EXCEPT !.messageBuffer = Append(st.messageBuffer, b)]
    ELSE st

\* a switch whose end byte processes the buffer whatever the mode
handleConnectionByteEager(p, st, b, env) ==
    IF b = VT
    THEN [st EXCEPT !.inMessage = TRUE, !.messageBuffer = <<>>]
    ELSE IF b = FS
    THEN [st EXCEPT !.inMessage = FALSE,
                    !.log = processHL7Message(p, st.log, st.messageBuffer,
                                              env),
                    !.messageBuffer = <<>>]
    ELSE IF b = LF THEN st
    ELSE IF st.inMessage
    THEN [st EXCEPT !.messageBuffer = Append(st.messageBuffer, b)]
    ELSE st

\* the switch of handleConnection on one byte
handleConnectionByte(p, st, b, env) ==
    IF b = VT
    THEN [st EXCEPT !.inMessage = TRUE, !.messageBuffer = <<>>]
    ELSE IF b = FS
    THEN IF st.inMessage
         THEN [st EXCEPT !.inMessage = FALSE,
                         !.log = processHL7Message(p, st.log,
                                                   st.messageBuffer, env),
                         !.messageBuffer = <<>>]
         ELSE st
    ELSE IF b = CR
    THEN IF st.inMessage
         THEN [st EXCEPT !.messageBuffer = Append(st.messageBuffer, b)]
         ELSE st
    ELSE IF b = LF THEN st
    ELSE IF st.inMessage
    THEN [st EXCEPT !.messageBuffer = Append(st.messageBuffer, b)]
    ELSE st

\* a switch whose start byte empties the buffer only when no message is open
StartHL7ListenerByteKeeping(p, st, b, env) ==
    IF b = VT
    THEN IF st.inMessage THEN st
         ELSE [st EXCEPT !.inMessage = TRUE, !.messageBuffer = <<>>]
    ELSE IF b = FS
    THEN IF st.inMessage
         THEN [st EXCEPT !.inMessage = FALSE,
                         !.log = processHL7Message(p, st.log,
                                                   st.messageBuffer, env)]
         ELSE st
    ELSE IF b = LF /\ p # "hl7_p0" THEN st
    ELSE IF st.inMessage
    THEN [st EXCEPT !.messageBuffer = Append(st.messageBuffer, b)]
    ELSE st

\* the switch of StartHL7Listener on one byte; part_000 has no case LF
StartHL7ListenerByte(p, st, b, env) ==
    IF b = VT
    THEN [st EXCEPT !.inMessage = TRUE, !.messageBuffer = <<>>]
    ELSE IF b = FS
    THEN IF st.inMessage
         THEN [st EXCEPT !.inMessage = FALSE,
                         !.log = processHL7Message(p, st.log,
                                                   st.messageBuffer, env)]
         ELSE st
    ELSE IF b = LF /\ p # "hl7_p0" THEN st
    ELSE IF st.inMessage
    THEN [st EXCEPT !.messageBuffer = Append(st.messageBuffer, b)]
    ELSE st

\* an ASTM switch that acknowledges an intermediate frame (ETB) but keeps it
\* in the buffer for its continuation instead of processing it
astmByteIntermediate(p, st, b, env) ==
    IF b = ENQ
    THEN [st EXCEPT !.log = Append(st.log, <<"write", <<ACK>>, env.wok>>)]
    ELSE IF b = STX THEN [st EXCEPT !.frameBuffer = <<>>]
    ELSE IF b = ETB
    THEN [st EXCEPT !.log = Append(st.log, <<"write", <<ACK>>, env.wok>>)]
    ELSE IF b = ETX
    THEN [st EXCEPT !.log = processASTMFrame(
                                Append(st.log, <<"write", <<ACK>>, env.wok>>),
                                st.frameBuffer, env)]
    ELSE IF b = EOT THEN st
    ELSE IF b = LF /\ p = "combined_p1" THEN st
    ELSE [st EXCEPT !.frameBuffer = Append(st.frameBuffer, b)]

\* an ASTM switch whose STX opens a frame without emptying the buffer
astmByteKeeping(p, st, b, env) ==
    IF b = ENQ
    THEN [st EXCEPT !.log = Append(st.log, <<"write", <<ACK>>, env.wok>>)]
    ELSE IF b = STX THEN st
    ELSE IF b = ETX \/ b = ETB
    THEN [st EXCEPT !.log = processASTMFrame(
                                Append(st.log, <<"write", <<ACK>>, env.wok>>),
                                st.frameBuffer, env)]
    ELSE IF b = EOT THEN st
    ELSE IF b = LF /\ p = "combined_p1" THEN st
    ELSE [st EXCEPT !.frameBuffer = Append(st.frameBuffer, b)]

\* an ASTM switch that rejects a frame end with nothing accumulated
astmByteRejecting(p, st, b, env) ==
    IF b = ENQ
    THEN [st EXCEPT !.log = Append(st.log, <<"write", <<ACK>>, env.wok>>)]
    ELSE IF b = STX THEN [st EXCEPT !.frameBuffer = <<>>]
    ELSE IF (b = ETX \/ b = ETB) /\ st.frameBuffer = <<>>
    THEN [st EXCEPT !.log = Append(st.log, <<"write", <<NAK>>, env.wok>>)]
    ELSE IF b = ETX \/ b = ETB
    THEN [st EXCEPT !.log = processASTMFrame(
                                Append(st.log, <<"write", <<ACK>>, env.wok>>),
                                st.frameBuffer, env)]
    ELSE IF b = EOT THEN st
    ELSE IF b = LF /\ p = "combined_p1" THEN st
    ELSE [st EXCEPT !.frameBuffer = Append(st.frameBuffer, b)]

\* an ASTM switch that answers ENQ only while its frame buffer is empty
astmByteBusy(p, st, b, env) ==
    IF b = ENQ
    THEN IF st.frameBuffer = <<>>
         THEN [st EXCEPT !.log = Append(st.log,
                                        <<"write", <<ACK>>, env.wok>>)]
         ELSE st
    ELSE IF b = STX THEN [st EXCEPT !.frameBuffer = <<>>]
    ELSE IF b = ETX \/ b = ETB
    THEN [st EXCEPT !.log = processASTMFrame(
                                Append(st.log, <<"write", <<ACK>>, env.wok>>),
                                st.frameBuffer, env)]
    ELSE IF b = EOT THEN st
    ELSE IF b = LF /\ p = "combined_p1" THEN st
    ELSE [st EXCEPT !.frameBuffer = Append(st.frameBuffer, b)]

\* the switch of StartASTMListener / the ASTM half of StartCombinedListener
\* on one byte; only part_001 has a case LF
astmByte(p, st, b, env) ==
    IF b = ENQ
    THEN [st EXCEPT !.log = Append(st.log, <<"write", <<ACK>>, env.wok>>)]
    ELSE IF b = STX THEN [st EXCEPT !.frameBuffer = <<>>]
    ELSE IF b = ETX \/ b = ETB
    THEN [st EXCEPT !.log = processASTMFrame(
                                Append(st.log, <<"write", <<ACK>>, env.wok>>),
                                st.frameBuffer, env)]
    ELSE IF b = EOT THEN st
    ELSE IF b = LF /\ p = "combined_p1" THEN st
    ELSE [st EXCEPT !.frameBuffer = Append(st.frameBuffer, b)]

\* the body of the byte loop of StartCombinedListener
StartCombinedListenerByte(p, st, b, env) ==
    IF b = VT
    THEN [st EXCEPT !.inMessage = TRUE, !.messageBuffer = <<>>]
    ELSE IF st.inMessage
    THEN IF b = FS
         THEN [st EXCEPT !.inMessage = FALSE,
                         !.log = processHL7Message(p, st.log,
                                                   st.messageBuffer, env)]
         ELSE [st EXCEPT !.messageBuffer = Append(st.messageBuffer, b)]
    ELSE astmByte(p, st, b, env)

\* what listener p does with one byte
Step(p, st, b, env) ==
    IF p = "tcp" THEN handleConnectionByte(p, st, b, env)
    ELSE IF p \in {"hl7", "hl7_p0"} THEN StartHL7ListenerByte(p, st, b, env)
    ELSE IF p = "astm" THEN astmByte(p, st, b, env)
    ELSE StartCombinedListenerByte(p, st, b, env)

\* for _, b := range readBuffer[:n], from byte i on; st is looked at before
\* the next byte, so the state after each byte is computed in turn
RECURSIVE RangeFrom(_, _, _, _, _)
RangeFrom(p, st, chunk, i, env) ==
    IF i > Len(chunk) \/ st.inMessage \notin BOOLEAN THEN st
    ELSE RangeFrom(p, Step(p, st, chunk[i], env), chunk, i + 1, env)

\* a read loop whose mode and buffers are declared inside the loop, so that
\* every read starts idle and empty
ReadLoopBodyFresh(p, st, chunk, env) ==
    RangeFrom(p, [st EXCEPT !.inMessage = FALSE, !.messageBuffer = <<>>,
                            !.frameBuffer = <<>>], chunk, 1, env)

\* one iteration of a serial listener's read loop on the n bytes read: the
\* buffers and the mode are declared outside the loop
ReadLoopBody(p, st, chunk, env) == RangeFrom(p, st, chunk, 1, env)

\* the same bytes delivered one per read, every write and sink call succeeding
RECURSIVE OnePerRead(_, _, _, _, _)
OnePerRead(p, st, bytes, i, t) ==
    IF i > Len(bytes) \/ st.inMessage \notin BOOLEAN THEN st
    ELSE OnePerRead(p, ReadLoopBody(p, st, <<bytes[i]>>,
                                    [wok |-> TRUE, sok |-> TRUE, t |-> t]),
                    bytes, i + 1, t)

---------------------------------------------------------------------------
(* What the instrument sends.  A read delivers one chunk; the chunks are  *)
(* single control bytes, payload text, and whole frames, so that the same *)
(* byte stream arrives under different partitions.                         *)

\* MSH with ten fields and one OBX: acknowledged, one observation
MsgFull == Bytes("MSH|^|A|B|C|D|||T|X") \o <<CR>> \o Bytes("OBX|1||G||5")

\* no MSH segment: no acknowledgment, one observation
MsgBare == Bytes("OBX|2||K||7")

\* MSH with three fields: no usable control ID, no observation
MsgShort == Bytes("MSH|^|A")

\* one patient record and one result record
RecText == Bytes("P|1|p") \o <<CR>> \o Bytes("R|1|G|5")

Hl7Chunks ==
    {<<VT>>, <<FS>>, <<CR>>, <<LF>>, MsgBare, MsgShort,
     <<VT>> \o MsgFull \o <<FS, CR>>}

\* an intermediate frame: patient, order and two results, closed by ETB
FrameA ==
    <<STX>> \o Bytes("P|1|p") \o <<CR>> \o Bytes("O|1|s") \o <<CR>>
        \o Bytes("R|1|G|5") \o <<CR>> \o Bytes("R|2|K") \o <<ETB>>

\* its continuation: a result before any patient or order record of the frame
FrameB ==
    <<STX>> \o Bytes("R|3|N") \o <<CR>> \o Bytes("O|1|t") \o <<CR>>
        \o Bytes("R|4|M") \o <<ETX>>

AstmChunks ==
    {<<ENQ>>, <<STX>>, <<ETX>>, <<ETB>>, <<EOT>>, RecText, FrameA, FrameB}

CombinedChunks ==
    {<<VT>>, <<FS>>, <<CR>>, <<LF>>, <<ENQ>>, <<STX>> \o RecText, <<ETX>>,
     <<EOT>>, MsgBare, <<VT>> \o MsgBare \o <<FS, CR>>}

Chunks(p) ==
    IF p \in {"tcp", "hl7", "hl7_p0"} THEN Hl7Chunks
    ELSE IF p = "astm" THEN AstmChunks
    ELSE CombinedChunks

\* the outcomes of the writes and sink calls made while one chunk is handled
Envs(t) == {[wok |-> w, sok |-> k, t |-> t] : w \in BOOLEAN, k \in BOOLEAN}

---------------------------------------------------------------------------
(* The texts handed to the pure functions *)

HL7SegPool ==
    {Bytes("MSH|^|A|B|C|D|||T|X"), Bytes("MSH|^|A|B"),
     Bytes("PID|1||p1||n1"), Bytes("PID|2||p2"),
     Bytes("OBR|1||a1"), Bytes("OBR|2|a2"),
     Bytes("OBX|1||G^g||5"), <<>>}

ASTMRecPool ==
    {Bytes("P|1|p1"), Bytes("P|1||P100"), Bytes("O|1|S200"),
     Bytes("R|1|GLU|5.6|u||N"), Bytes("R|2|K"), <<>>}

\* strings joined by CR
RECURSIVE JoinCR(_)
JoinCR(segs) ==
    IF Len(segs) = 0 THEN <<>>
    ELSE IF Len(segs) = 1 THEN segs[1]
    ELSE segs[1] \o <<CR>> \o JoinCR(Tail(segs))

SeqsUpTo(S, n) == UNION {[1..k -> S] : k \in 1..n}

\* the message of the repository's test client (test.go:21-24), with one
\* or two OBX segments
TestClientMessages ==
    {JoinCR(<<Bytes("MSH|^|A|B|C|D|||T|X"), Bytes("PID|1||") \o pid
                  \o Bytes("||D^J"), Bytes("OBR|1||") \o acc \o Bytes("|T")>>
            \o obx) \o <<CR>> :
        pid \in {Bytes("12"), Bytes("34")},
        acc \in {Bytes("54"), Bytes("76")},
        obx \in {<<Bytes("OBX|1||G||5")>>,
                 <<Bytes("OBX|1||G||5"), Bytes("OBX|2||N||9")>>}}

\* the frame of the ASTM example: P|1||<pid>, O|1|<sid>, R|1|<code>|...
ExampleFrames ==
    {JoinCR(<<Bytes("P|1||") \o pid, Bytes("O|1|") \o sid,
              Bytes("R|1|") \o code \o Bytes("|5.6|u||N")>>) \o <<CR>> :
        pid \in {Bytes("P100"), Bytes("P2")},
        sid \in {Bytes("S200"), Bytes("S3")},
        code \in {Bytes("GLU"), Bytes("NA")}}

\* values of OBX field 14: absent, too short, a date, a date and time, with
\* an out-of-range day, hour or month, with trailing text, with spaces around
TimestampPool ==
    {<<>>, Bytes("2024"), Bytes("20240229"), Bytes("20230229"),
     Bytes("2024010112"), Bytes("20240101123045"), Bytes("20240101250000"),
     Bytes("20241301120000"), Bytes("20240101123045+0100"),
     Bytes(" 20240101"), Bytes("20240101 "), Bytes("2024010a")}

\* a PID segment and an OBX segment whose field 14 is the timestamp ts
TimestampMessages ==
    {Bytes("PID|1||p1") \o <<CR>> \o Bytes("OBX|1||G||5|||||||||") \o ts :
        ts \in TimestampPool}

\* segments a well-formed message does not have: OBX with no or one field,
\* an unknown type that mentions OBX, the empty segment; and a full OBX
MalformedSegPool ==
    {Bytes("OBX"), Bytes("OBX|1"), Bytes("ZZZ|9|OBX"), <<>>,
     Bytes("OBX|2||K^k||7|u")}

\* messages whose MSH segment has ten fields, the tenth empty
NoControlIDMessages ==
    {Bytes("MSH|^|A|B|C|D|||T|"),
     Bytes("MSH|^|A|B|C|D|||T|") \o <<CR>> \o Bytes("OBX|1||G||5")}

Texts ==
    {JoinCR(q) : q \in SeqsUpTo(HL7SegPool, MaxSegs)}
        \cup {JoinCR(q) : q \in SeqsUpTo(ASTMRecPool, MaxSegs)}
        \cup TestClientMessages \cup ExampleFrames \cup TimestampMessages
        \cup {JoinCR(q) : q \in SeqsUpTo(MalformedSegPool, MaxSegs)}
        \cup NoControlIDMessages

---------------------------------------------------------------------------
(* The sink call *)

\* http.Client{Timeout: 10 * time.Second}, in seconds
ClientTimeout == 10

\* what the server does with a request: it answers, it refuses the
\* connection, or it accepts the connection and stays silent
ServerModes == {"answers", "refuses", "silent"}

\* a worker in its read loop that has made no sink call yet
ReadingWorker ==
    [pc |-> "read", server |-> "answers", elapsed |-> 0, outcomes |-> <<>>]

---------------------------------------------------------------------------
(* The connections of the TCP server *)

Conns == 1..MaxConns

\* a connection not yet accepted; messageBuffer and inMessage are declared
\* when its worker starts
Unaccepted ==
    [status |-> "none", reads |-> 0, rdbuf |-> <<>>, received |-> <<>>,
     session |-> InitialSession]

NoConns == [c \in Conns |-> Unaccepted]

\* a message that is acknowledged and yields no Observation
ConnMsg == Bytes("MSH|^|||||||T|X")

\* what a LIS sends on a connection of the server: a whole frame, the start
\* of a message that yields one Observation, and its end
ConnChunks == {<<VT>> \o ConnMsg \o <<FS>>, <<VT>> \o Bytes("OBX"), <<FS>>}

\* startClient before its first attempt: no connection, no session yet
StartingClient ==
    [pc |-> "top", dials |-> 0, conn |-> 0, reads |-> 0, rdbuf |-> <<>>,
     received |-> <<>>, session |-> InitialSession, left |-> InitialSession]

\* every write and sink call made while a byte is handled succeeds
Succeeding(t) == [wok |-> TRUE, sok |-> TRUE, t |-> t]

---------------------------------------------------------------------------
(* The session as a state machine *)

Session == [inMessage |-> inMessage, messageBuffer |-> messageBuffer,
            frameBuffer |-> frameBuffer, log |-> log]

Init ==
    /\ prog \in Programs
    /\ alive = TRUE
    /\ failed = FALSE
    /\ reads = 0
    /\ rdbuf = <<>>
    /\ inMessage = FALSE
    /\ messageBuffer = <<>>
    /\ frameBuffer = <<>>
    /\ received = <<>>
    /\ log = <<>>
    /\ ref = InitialSession
    /\ now = 0
    /\ conns = NoConns
    /\ worker = ReadingWorker
    /\ timeouts = <<>>
    /\ client = StartingClient
    /\ gen = Gen(prog)
    /\ message = <<>>
    /\ results = <<>>
    /\ ack = <<>>
    /\ called = "none"

\* the worker consumes the bytes c and its state becomes st
Consume(c, st) ==
    /\ inMessage' = st.inMessage
    /\ messageBuffer' = st.messageBuffer
    /\ frameBuffer' = st.frameBuffer
    /\ log' = st.log
    /\ received' = received \o c
    /\ ref' = OnePerRead(prog, ref, c, 1, now)

\* handleConnection: reader.ReadByte() finds the bufio buffer empty, the
\* conn delivers a chunk, and its first byte goes through the switch
handleConnectionRead ==
    /\ prog = "tcp" /\ alive /\ rdbuf = <<>> /\ reads < MaxReads
    /\ \E chunk \in Chunks(prog), env \in Envs(now) :
        /\ Consume(<<Head(chunk)>>,
                   handleConnectionByte(prog, Session, Head(chunk), env))
        /\ rdbuf' = Tail(chunk)
    /\ reads' = reads + 1
    /\ UNCHANGED <<prog, alive, failed, now>>
    /\ UNCHANGED callVars
    /\ UNCHANGED connVars
    /\ UNCHANGED sinkVars
    /\ UNCHANGED gapVars
    /\ UNCHANGED clientVars

\* handleConnection: reader.ReadByte() returns a buffered byte
handleConnectionBuffered ==
    /\ prog = "tcp" /\ alive /\ rdbuf # <<>>
    /\ \E env \in Envs(now) :
        Consume(<<Head(rdbuf)>>,
                handleConnectionByte(prog, Session, Head(rdbuf), env))
    /\ rdbuf' = Tail(rdbuf)
    /\ UNCHANGED <<prog, alive, failed, reads, now>>
    /\ UNCHANGED callVars
    /\ UNCHANGED connVars
    /\ UNCHANGED sinkVars
    /\ UNCHANGED gapVars
    /\ UNCHANGED clientVars

\* handleConnection: the read deadline passes; the deadline is reset and the
\* loop continues
handleConnectionTimeout ==
    /\ prog = "tcp" /\ alive /\ rdbuf = <<>>
    /\ UNCHANGED vars

\* handleConnection: EOF or another read error; the worker returns
handleConnectionClosed ==
    /\ prog = "tcp" /\ alive /\ rdbuf = <<>>
    /\ alive' = FALSE
    /\ failed' = TRUE
    /\ UNCHANGED <<prog, reads, rdbuf, inMessage, messageBuffer, frameBuffer,
                   received, log, ref, now>>
    /\ UNCHANGED callVars
    /\ UNCHANGED connVars
    /\ UNCHANGED sinkVars
    /\ UNCHANGED gapVars
    /\ UNCHANGED clientVars

\* a serial listener: port.Read returns n bytes and the loop ranges over them
serialRead ==
    /\ prog # "tcp" /\ alive /\ reads < MaxReads
    /\ \E chunk \in Chunks(prog), env \in Envs(now) :
        Consume(chunk, ReadLoopBody(prog, Session, chunk, env))
    /\ reads' = reads + 1
    /\ UNCHANGED <<prog, alive, failed, rdbuf, now>>
    /\ UNCHANGED callVars
    /\ UNCHANGED connVars
    /\ UNCHANGED sinkVars
    /\ UNCHANGED gapVars
    /\ UNCHANGED clientVars

\* a serial listener: port.Read returns an error; the loop continues
serialReadError ==
    /\ prog # "tcp" /\ alive
    /\ failed' = TRUE
    /\ UNCHANGED <<prog, alive, reads, rdbuf, inMessage, messageBuffer,
                   frameBuffer, received, log, ref, now>>
    /\ UNCHANGED callVars
    /\ UNCHANGED connVars
    /\ UNCHANGED sinkVars
    /\ UNCHANGED gapVars
    /\ UNCHANGED clientVars

Next ==
    \/ handleConnectionRead
    \/ handleConnectionBuffered
    \/ handleConnectionTimeout
    \/ handleConnectionClosed
    \/ serialRead
    \/ serialReadError

Spec == Init /\ [][Next]_vars

---------------------------------------------------------------------------
(* The pure functions under call: Init draws the generation and the text, *)
(* and a behaviour applies one of parseHL7, generateHL7ACK and parseASTM  *)
(* to it once, at whatever time the clock then shows.                      *)

InitCalls ==
    /\ prog = "tcp"
    /\ alive = TRUE
    /\ failed = FALSE
    /\ reads = 0
    /\ rdbuf = <<>>
    /\ inMessage = FALSE
    /\ messageBuffer = <<>>
    /\ frameBuffer = <<>>
    /\ received = <<>>
    /\ log = <<>>
    /\ ref = InitialSession
    /\ now = 0
    /\ gen \in Generations
    /\ message \in Texts
    /\ results = <<>>
    /\ ack = <<>>
    /\ called = "none"
    /\ conns = NoConns
    /\ worker = ReadingWorker
    /\ timeouts = <<>>
    /\ client = StartingClient

CallParseHL7 ==
    /\ called = "none"
    /\ results' = parseHL7(gen, message, now)
    /\ called' = "parseHL7"
    /\ UNCHANGED <<gen, message, ack, now>>
    /\ UNCHANGED sessionVars
    /\ UNCHANGED connVars
    /\ UNCHANGED sinkVars
    /\ UNCHANGED gapVars
    /\ UNCHANGED clientVars

CallGenerateHL7ACK ==
    /\ called = "none"
    /\ ack' = generateHL7ACK(gen, message, now)
    /\ called' = "generateHL7ACK"
    /\ UNCHANGED <<gen, message, results, now>>
    /\ UNCHANGED sessionVars
    /\ UNCHANGED connVars
    /\ UNCHANGED sinkVars
    /\ UNCHANGED gapVars
    /\ UNCHANGED clientVars

CallParseASTM ==
    /\ called = "none"
    /\ results' = parseASTM(message, now)
    /\ called' = "parseASTM"
    /\ UNCHANGED <<gen, message, ack, now>>
    /\ UNCHANGED sessionVars
    /\ UNCHANGED connVars
    /\ UNCHANGED sinkVars
    /\ UNCHANGED gapVars
    /\ UNCHANGED clientVars

\* a listener whose processHL7Message is of generation g
ListenerOf(g) ==
    IF g = "p0" THEN "hl7_p0" ELSE IF g = "p1" THEN "combined_p1" ELSE "tcp"

\* processHL7Message is applied to the text as a completed message; the
\* write of the ACK and the sink call succeed or fail
CallProcessHL7Message ==
    /\ called = "none"
    /\ \E env \in Envs(now) :
        log' = processHL7Message(ListenerOf(gen), log, message, env)
    /\ called' = "processHL7Message"
    /\ UNCHANGED <<gen, message, results, ack, now>>
    /\ UNCHANGED <<prog, alive, failed, reads, rdbuf, inMessage, messageBuffer,
                   frameBuffer, received, ref>>
    /\ UNCHANGED connVars
    /\ UNCHANGED sinkVars
    /\ UNCHANGED gapVars
    /\ UNCHANGED clientVars

\* the wall clock advances
Tick ==
    /\ now < MaxClock
    /\ now' = now + 1
    /\ UNCHANGED callVars
    /\ UNCHANGED sessionVars
    /\ UNCHANGED connVars
    /\ UNCHANGED sinkVars
    /\ UNCHANGED gapVars
    /\ UNCHANGED clientVars

NextCalls ==
    \/ CallParseHL7
    \/ CallGenerateHL7ACK
    \/ CallParseASTM
    \/ CallProcessHL7Message
    \/ Tick

SpecCalls == InitCalls /\ [][NextCalls]_vars

---------------------------------------------------------------------------
(* The TCP server: startServer accepts connections and starts one worker  *)
(* per connection; the workers run concurrently, each step of one worker  *)
(* consuming one byte of its own connection.  The outcomes of the writes  *)
(* and sink calls do not steer a worker (see Spec); here they succeed.    *)

InitConns ==
    /\ prog = "tcp"
    /\ alive = TRUE
    /\ failed = FALSE
    /\ reads = 0
    /\ rdbuf = <<>>
    /\ inMessage = FALSE
    /\ messageBuffer = <<>>
    /\ frameBuffer = <<>>
    /\ received = <<>>
    /\ log = <<>>
    /\ ref = InitialSession
    /\ now = 0
    /\ gen = "main"
    /\ message = <<>>
    /\ results = <<>>
    /\ ack = <<>>
    /\ called = "none"
    /\ conns = NoConns
    /\ worker = ReadingWorker
    /\ timeouts = <<>>
    /\ client = StartingClient

\* a worker that works on the variables of the first connection
connSessionShared(cs, c) == cs[1].session

\* the messageBuffer, inMessage and history the worker of connection c
\* works on: the variables declared in its own call of handleConnection
connSession(cs, c) == cs[c].session

\* the worker of connection c takes byte b through its switch
connByte(cs, c, b, env) ==
    [cs EXCEPT ![c].session = handleConnectionByte("tcp", connSession(cs, c),
                                                   b, env),
               ![c].received = Append(cs[c].received, b)]

\* startServer: ln.Accept() returns the next connection and
\* go handleConnection(conn) starts its worker
startServerAccept(c) ==
    /\ conns[c].status = "none"
    /\ \A d \in 1..(c - 1) : conns[d].status # "none"
    /\ conns' = [conns EXCEPT ![c].status = "open"]
    /\ UNCHANGED sessionVars
    /\ UNCHANGED callVars
    /\ UNCHANGED sinkVars
    /\ UNCHANGED gapVars
    /\ UNCHANGED clientVars
    /\ UNCHANGED now

\* the worker of c: reader.ReadByte() finds the bufio buffer empty, the conn
\* delivers a chunk, and its first byte goes through the switch
connRead(c) ==
    /\ conns[c].status = "open" /\ conns[c].rdbuf = <<>>
    /\ conns[c].reads < MaxConnReads
    /\ \E chunk \in ConnChunks :
        conns' = [connByte(conns, c, Head(chunk), Succeeding(now))
                     EXCEPT ![c].rdbuf = Tail(chunk),
                            ![c].reads = conns[c].reads + 1]
    /\ UNCHANGED sessionVars
    /\ UNCHANGED callVars
    /\ UNCHANGED sinkVars
    /\ UNCHANGED gapVars
    /\ UNCHANGED clientVars
    /\ UNCHANGED now

\* the worker of c: reader.ReadByte() returns a buffered byte
connBuffered(c) ==
    /\ conns[c].status = "open" /\ conns[c].rdbuf # <<>>
    /\ conns' = [connByte(conns, c, Head(conns[c].rdbuf), Succeeding(now))
                     EXCEPT ![c].rdbuf = Tail(conns[c].rdbuf)]
    /\ UNCHANGED sessionVars
    /\ UNCHANGED callVars
    /\ UNCHANGED sinkVars
    /\ UNCHANGED gapVars
    /\ UNCHANGED clientVars
    /\ UNCHANGED now

\* the worker of c: EOF or another read error; the worker returns
connClosed(c) ==
    /\ conns[c].status = "open" /\ conns[c].rdbuf = <<>>
    /\ conns' = [conns EXCEPT ![c].status = "closed"]
    /\ UNCHANGED sessionVars
    /\ UNCHANGED callVars
    /\ UNCHANGED sinkVars
    /\ UNCHANGED gapVars
    /\ UNCHANGED clientVars
    /\ UNCHANGED now

NextConns ==
    \E c \in Conns :
        \/ startServerAccept(c)
        \/ connRead(c)
        \/ connBuffered(c)
        \/ connClosed(c)

SpecConns == InitConns /\ [][NextConns]_vars

---------------------------------------------------------------------------
(* The sink call step by step: the worker completes a message that has     *)
(* records and calls sendHL7ToServer / sendASTMToServer, which blocks in   *)
(* client.Do until the server answers, the connection fails, or the        *)
(* client's timer expires.                                                 *)

InitSink ==
    /\ prog \in {"hl7", "astm"}
    /\ alive = TRUE
    /\ failed = FALSE
    /\ reads = 0
    /\ rdbuf = <<>>
    /\ inMessage = FALSE
    /\ messageBuffer = <<>>
    /\ frameBuffer = <<>>
    /\ received = <<>>
    /\ log = <<>>
    /\ ref = InitialSession
    /\ now = 0
    /\ gen = "main"
    /\ message = <<>>
    /\ results = <<>>
    /\ ack = <<>>
    /\ called = "none"
    /\ conns = NoConns
    /\ worker = ReadingWorker
    /\ timeouts = <<>>
    /\ client = StartingClient

\* a client without Timeout: its timer never expires
clientNeverExpires(elapsed) == FALSE

\* the timer of http.Client{Timeout: 10 * time.Second} has expired
clientExpired(elapsed) == elapsed >= ClientTimeout

SinkUnchanged ==
    /\ UNCHANGED sessionVars
    /\ UNCHANGED callVars
    /\ UNCHANGED connVars
    /\ UNCHANGED gapVars
    /\ UNCHANGED clientVars
    /\ UNCHANGED now

\* the worker calls the sink: client.Do(req) starts
workerCallsSink ==
    /\ worker.pc = "read"
    /\ Len(worker.outcomes) < MaxSinkCalls
    /\ \E m \in ServerModes :
        worker' = [worker EXCEPT !.pc = "call", !.server = m, !.elapsed = 0]
    /\ SinkUnchanged

\* a second passes while client.Do waits
sinkSecond ==
    /\ worker.pc = "call"
    /\ worker.elapsed < ClientTimeout
    /\ worker' = [worker EXCEPT !.elapsed = worker.elapsed + 1]
    /\ SinkUnchanged

\* client.Do returns the response; the status is logged
sinkAnswers ==
    /\ worker.pc = "call"
    /\ worker.server = "answers"
    /\ ~clientExpired(worker.elapsed)
    /\ worker' = [worker EXCEPT !.pc = "read",
                                !.outcomes = Append(@, "success")]
    /\ SinkUnchanged

\* client.Do returns an error: the server cannot be reached
sinkRefuses ==
    /\ worker.pc = "call"
    /\ worker.server = "refuses"
    /\ ~clientExpired(worker.elapsed)
    /\ worker' = [worker EXCEPT !.pc = "read",
                                !.outcomes = Append(@, "failure")]
    /\ SinkUnchanged

\* client.Do returns the error of the expired timer
sinkTimesOut ==
    /\ worker.pc = "call"
    /\ clientExpired(worker.elapsed)
    /\ worker' = [worker EXCEPT !.pc = "read",
                                !.outcomes = Append(@, "timeout")]
    /\ SinkUnchanged

NextSink ==
    \/ workerCallsSink
    \/ sinkSecond
    \/ sinkAnswers
    \/ sinkRefuses
    \/ sinkTimesOut

SpecSink == InitSink /\ [][NextSink]_vars

\* time passes and an expired timer fires; nothing is assumed of the server
FairSpecSink == SpecSink /\ WF_vars(sinkSecond) /\ WF_vars(sinkTimesOut)

---------------------------------------------------------------------------
(* The TCP client: startClient dials the LIS, runs handleConnection on the *)
(* connection until it returns, sleeps, and dials again; a failed dial is  *)
(* followed by a sleep and another attempt.                                 *)

InitClient ==
    /\ prog = "tcp"
    /\ alive = TRUE
    /\ failed = FALSE
    /\ reads = 0
    /\ rdbuf = <<>>
    /\ inMessage = FALSE
    /\ messageBuffer = <<>>
    /\ frameBuffer = <<>>
    /\ received = <<>>
    /\ log = <<>>
    /\ ref = InitialSession
    /\ now = 0
    /\ gen = "main"
    /\ message = <<>>
    /\ results = <<>>
    /\ ack = <<>>
    /\ called = "none"
    /\ conns = NoConns
    /\ worker = ReadingWorker
    /\ timeouts = <<>>
    /\ client = StartingClient

\* what the steps of the client leave alone
ClientElse ==
    /\ UNCHANGED sessionVars
    /\ UNCHANGED callVars
    /\ UNCHANGED connVars
    /\ UNCHANGED sinkVars
    /\ UNCHANGED now

ClientUnchanged == ClientElse /\ UNCHANGED gapVars

\* a handler that goes on with the mode and buffer of the connection before
handleConnectionStartKept(old) == [old EXCEPT !.log = <<>>]

\* handleConnection declares messageBuffer and inMessage anew; old is what
\* the call for the connection before left behind
handleConnectionStart(old) == InitialSession

\* the top of the loop: net.Dial / net.DialTimeout is called
startClientDial ==
    /\ client.pc = "top" /\ client.dials < MaxDials
    /\ client' = [client EXCEPT !.pc = "dialing", !.dials = client.dials + 1]
    /\ ClientUnchanged

\* the dial fails: the client logs and goes to sleep for 5 seconds
startClientDialFails ==
    /\ client.pc = "dialing"
    /\ client' = [client EXCEPT !.pc = "sleep"]
    /\ ClientUnchanged

\* the dial succeeds: handleConnection(conn) is called
startClientConnected ==
    /\ client.pc = "dialing"
    /\ client' = [client EXCEPT !.pc = "session",
                                !.conn = client.conn + 1,
                                !.reads = 0, !.rdbuf = <<>>,
                                !.received = <<>>,
                                !.session = handleConnectionStart(client.left)]
    /\ ClientUnchanged

\* the worker takes byte b of the client's connection through its switch
clientByte(cl, b, env) ==
    [cl EXCEPT !.session = handleConnectionByte("tcp", cl.session, b, env),
               !.received = Append(cl.received, b)]

\* handleConnection: reader.ReadByte() finds the bufio buffer empty, the
\* conn delivers a chunk, and its first byte goes through the switch
clientRead ==
    /\ client.pc = "session" /\ client.rdbuf = <<>>
    /\ client.reads < MaxConnReads
    /\ \E chunk \in ConnChunks :
        client' = [clientByte(client, Head(chunk), Succeeding(now))
                      EXCEPT !.rdbuf = Tail(chunk),
                             !.reads = client.reads + 1]
    /\ ClientUnchanged

\* handleConnection: reader.ReadByte() returns a buffered byte
clientBuffered ==
    /\ client.pc = "session" /\ client.rdbuf # <<>>
    /\ client' = [clientByte(client, Head(client.rdbuf), Succeeding(now))
                      EXCEPT !.rdbuf = Tail(client.rdbuf)]
    /\ ClientUnchanged

\* a handler that gives up the partial message when the read deadline passes
clientTimeoutResetting ==
    /\ client.pc = "session" /\ client.rdbuf = <<>>
    /\ Len(timeouts) < MaxTimeouts
    /\ timeouts' = Append(timeouts, <<client.conn, Len(client.received)>>)
    /\ client' = [client EXCEPT !.session.inMessage = FALSE,
                                !.session.messageBuffer = <<>>]
    /\ ClientElse

\* handleConnection: the read deadline passes; the deadline is reset and the
\* loop continues
clientTimeout ==
    /\ client.pc = "session" /\ client.rdbuf = <<>>
    /\ Len(timeouts) < MaxTimeouts
    /\ timeouts' = Append(timeouts, <<client.conn, Len(client.received)>>)
    /\ UNCHANGED client
    /\ ClientElse

\* handleConnection: EOF or another read error; the handler returns, the
\* conn is closed, and the client goes to sleep for 2 seconds
clientClosed ==
    /\ client.pc = "session" /\ client.rdbuf = <<>>
    /\ client' = [client EXCEPT !.pc = "sleep", !.left = client.session]
    /\ ClientUnchanged

\* time.Sleep returns: back to the top of the loop
startClientSleep ==
    /\ client.pc = "sleep"
    /\ client' = [client EXCEPT !.pc = "top"]
    /\ ClientUnchanged

NextClient ==
    \/ startClientDial
    \/ startClientDialFails
    \/ startClientConnected
    \/ clientRead
    \/ clientBuffered
    \/ clientTimeout
    \/ clientClosed
    \/ startClientSleep

SpecClient == InitClient /\ [][NextClient]_vars

\* time.Sleep returns and the loop goes on to its next statement; nothing is
\* assumed of the LIS
FairSpecClient ==
    SpecClient /\ WF_vars(startClientSleep) /\ WF_vars(startClientDial)

---------------------------------------------------------------------------
(* Reading the histories *)

\* the data of the log entries of one kind, in order
Entries(lg, kind) ==
    LET K == {k \in 1..Len(lg) : lg[k][1] = kind}
    IN  [j \in 1..Cardinality(K) |-> lg[NthPos(K, j)][2]]

\* what the framer emitted and wrote, whatever became of each write and call
Outputs(lg) == [k \in 1..Len(lg) |-> <<lg[k][1], lg[k][2]>>]

\* s is n well-formed MLLP frames back to back: VT, a payload without VT, FS
\* and LF, then FS and CR
WellFormedFrames(s) ==
    LET V == {i \in 1..Len(s) : s[i] = VT}
        F == {i \in 1..Len(s) : s[i] = FS}
        n == Cardinality(V)
    IN  /\ Cardinality(F) = n
        /\ \A i \in 1..Len(s) : s[i] # LF
        /\ n = 0 => Len(s) = 0
        /\ n > 0 => NthPos(V, 1) = 1 /\ NthPos(F, n) + 1 = Len(s)
        /\ \A k \in 1..n :
            /\ NthPos(V, k) < NthPos(F, k)
            /\ NthPos(F, k) < Len(s) /\ s[NthPos(F, k) + 1] = CR
            /\ k < n => NthPos(V, k + 1) = NthPos(F, k) + 2

\* the payloads of the frames of a well-formed stream
Payloads(s) ==
    LET V == {i \in 1..Len(s) : s[i] = VT}
        F == {i \in 1..Len(s) : s[i] = FS}
    IN  [k \in 1..Cardinality(V) |->
            SubSeq(s, NthPos(V, k) + 1, NthPos(F, k) - 1)]

---------------------------------------------------------------------------
(* Claims *)

\* C1: chunk-invariance.  However the bytes received so far were split into
\* reads, the framer's mode and buffers, the completed messages and frames
\* it emitted and the bytes it wrote are those of the same bytes delivered
\* one byte per read.
ChunkInvariance ==
    /\ inMessage = ref.inMessage
    /\ messageBuffer = ref.messageBuffer
    /\ frameBuffer = ref.frameBuffer
    /\ Outputs(log) = Outputs(ref.log)

\* a serial HL7 listener received one message in three reads (VT, an
\* eleven-byte payload, FS) and emitted it
ChunkInvarianceWitness ==
    /\ prog = "hl7"
    /\ reads = 3
    /\ received = <<VT>> \o MsgBare \o <<FS>>
    /\ Entries(log, "hl7") = <<MsgBare>>

FieldAt(seg, k) ==
    LET f == Split(seg, PIPE)
    IN  IF k < Len(f) THEN f[k + 1] ELSE <<>>

\* the places of the segments of text that start with MSH
MSHPlaces(text) ==
    {i \in 1..Len(Split(text, CR)) : HasPrefix(Split(text, CR)[i], MSH)}

\* the first segment of text that starts with MSH
FirstMSH(text) == Split(text, CR)[NthPos(MSHPlaces(text), 1)]

\* text has an MSH segment and the first has at least 10 fields
UsableMSH(text) ==
    MSHPlaces(text) # {} /\ Len(Split(FirstMSH(text), PIPE)) >= 10

\* C3: ACK correctness.  For a message whose first MSH segment has at least
\* 10 fields, generateHL7ACK returns two CR-separated segments: an MSH
\* segment whose fields are the original encoding characters, the original
\* receiving application and facility as sender, the original sending
\* application and facility as receiver, with a field ACK and a field AL,
\* every value in a field of its own; and an MSA segment with code AA and
\* the original control ID.
AckCorrect ==
    (called = "generateHL7ACK" /\ UsableMSH(message)) =>
        LET segs == Split(ack, CR)
            out == Split(segs[1], PIPE)
            msa == Split(segs[2], PIPE)
        IN  /\ Len(segs) = 2
            /\ Len(out) >= 6
            /\ out[1] = MSH
            /\ out[2] = FieldAt(FirstMSH(message), 1)
            /\ out[3] = FieldAt(FirstMSH(message), 4)
            /\ out[4] = FieldAt(FirstMSH(message), 5)
            /\ out[5] = FieldAt(FirstMSH(message), 2)
            /\ out[6] = FieldAt(FirstMSH(message), 3)
            /\ \E k \in 1..Len(out) : out[k] = LitACK
            /\ \E k \in 1..Len(out) : out[k] = LitAL
            /\ Len(msa) >= 3
            /\ msa[1] = LitMSA
            /\ msa[2] = LitAA
            /\ msa[3] = FieldAt(FirstMSH(message), 9)

\* C4: missing MSH yields no ACK.  For a message with no segment starting
\* with MSH, or whose first MSH segment has fewer than 10 fields,
\* generateHL7ACK returns the empty string.
NoAckWithoutMSH ==
    (called = "generateHL7ACK" /\ ~UsableMSH(message)) => ack = <<>>

\* what a step that completes HL7 messages for which generateHL7ACK returns
\* the empty string must do
SkipsAckWrite ==
    \A k \in (Len(log) + 1)..Len(log') :
        (log'[k][1] = "hl7"
            /\ generateHL7ACK(Gen(prog), log'[k][2], now) = <<>>) =>
            /\ alive'
            /\ k < Len(log') => log'[k + 1][1] # "write"
            /\ parseHL7(Gen(prog), log'[k][2], now) # <<>> =>
                /\ k < Len(log')
                /\ log'[k + 1][1] = "sink"
                /\ log'[k + 1][2] = parseHL7(Gen(prog), log'[k][2], now)

\* C5: when generateHL7ACK returns the empty string for a completed HL7
\* message, the session writes nothing to the transport for that message,
\* keeps running, and still forwards the observations parsed from it.
NoAckNoWrite == [][SkipsAckWrite]_vars

\* the place of the last of the segments before place i whose type is ty,
\* 0 when there is none
LastBefore(segs, i, ty) ==
    LET P == {j \in 1..(i - 1) : FieldAt(segs[j], 0) = ty}
    IN  IF P = {} THEN 0 ELSE NthPos(P, Cardinality(P))

\* field k of that segment, empty when there is none
ContextField(segs, i, ty, k) ==
    IF LastBefore(segs, i, ty) = 0 THEN <<>>
    ELSE FieldAt(segs[LastBefore(segs, i, ty)], k)

\* the places of the segments of type ty
PlacesOf(segs, ty) == {i \in 1..Len(segs) : FieldAt(segs[i], 0) = ty}

\* C6: HL7 context persistence.  parseHL7 returns one Observation per OBX
\* segment, in order; its patient_id and patient_name are fields 3 and 5 of
\* the last PID segment before that OBX, its accession_number field 2 of
\* the last OBR before it, its message_id field 9 of the last MSH before
\* it, each empty when the message has no such segment before the OBX;
\* nothing but the message parsed decides them.
ContextPersists ==
    called = "parseHL7" =>
        LET segs == Split(message, CR)
        IN  /\ Len(results) = Cardinality(PlacesOf(segs, OBX))
            /\ \A j \in 1..Len(results) :
                /\ results[j].patient_id
                     = ContextField(segs, NthPos(PlacesOf(segs, OBX), j),
                                    PID, 3)
                /\ results[j].patient_name
                     = ContextField(segs, NthPos(PlacesOf(segs, OBX), j),
                                    PID, 5)
                /\ results[j].accession_number
                     = ContextField(segs, NthPos(PlacesOf(segs, OBX), j),
                                    OBR, 2)
                /\ results[j].message_id
                     = ContextField(segs, NthPos(PlacesOf(segs, OBX), j),
                                    MSH, 9)

\* two PID segments, then an OBX: the Observation carries the second PID's
\* patient ID and its (absent) name
ContextPersistsWitness ==
    /\ called = "parseHL7"
    /\ message = Bytes("PID|1||p1||n1") \o <<CR>> \o Bytes("PID|2||p2")
                     \o <<CR>> \o Bytes("OBX|1||G^g||5")
    /\ Len(results) = 1
    /\ results[1].patient_id = Bytes("p2")
    /\ results[1].patient_name = <<>>

\* C7: for a message laid out as the test client's (MSH, PID|1||<pid>||<name>,
\* OBR|1||<acc>|..., then OBX segments), every Observation of parseHL7
\* carries patient_id <pid>, patient_name <name> and accession_number <acc>.
TestClientLayout ==
    (called = "parseHL7" /\ message \in TestClientMessages) =>
        LET segs == Split(message, CR)
        IN  /\ Len(results) >= 1
            /\ \A j \in 1..Len(results) :
                /\ results[j].patient_id = FieldAt(segs[2], 3)
                /\ results[j].patient_name = FieldAt(segs[2], 5)
                /\ results[j].accession_number = FieldAt(segs[3], 3)

\* C8: for a frame laid out as P|1||<pid>, O|1|<sid>, R|1|<code>|..., parseASTM
\* returns exactly one Result, with patient_id <pid>, sample_id <sid> and
\* test_code <code>.
ASTMExample ==
    (called = "parseASTM" /\ message \in ExampleFrames) =>
        LET lines == Split(message, CR)
        IN  /\ Len(results) = 1
            /\ results[1].patient_id = FieldAt(lines[1], 3)
            /\ results[1].sample_id = FieldAt(lines[2], 2)
            /\ results[1].test_code = FieldAt(lines[3], 2)

\* batch holds one Result per R record of the frame text x, in order, each
\* with the patient and sample of the last P and O record before it in x
OnePerRecord(x, batch) ==
    LET lines == Split(x, CR)
    IN  /\ Len(batch) = Cardinality(PlacesOf(lines, RecR))
        /\ \A j \in 1..Len(batch) :
            /\ batch[j].test_code
                 = FieldAt(lines[NthPos(PlacesOf(lines, RecR), j)], 2)
            /\ batch[j].patient_id
                 = ContextField(lines, NthPos(PlacesOf(lines, RecR), j),
                                RecP, 2)
            /\ batch[j].sample_id
                 = ContextField(lines, NthPos(PlacesOf(lines, RecR), j),
                                RecO, 2)

\* the batch forwarded for the frame logged at place k: the sink is called
\* right after the frame, and only when there are results
BatchOf(lg, k) ==
    IF k < Len(lg) /\ lg[k + 1][1] = "sink" THEN lg[k + 1][2] ELSE <<>>

\* C9: for every completed ASTM frame the results forwarded are one Result
\* per R record of that frame, in record order, each with the patient_id and
\* sample_id of the most recent P and O record before it in that same frame,
\* empty when the frame has none before it: no context comes from an
\* earlier frame, an ETB-terminated one included.
ASTMContextPerFrame ==
    \A k \in 1..Len(log) :
        log[k][1] = "astm" => OnePerRecord(log[k][2], BatchOf(log, k))

\* an ETB-terminated frame with patient and order, then its continuation
\* whose first result precedes every P and O record of the frame
ASTMContextPerFrameWitness ==
    /\ prog = "astm"
    /\ received = FrameA \o FrameB
    /\ Len(Entries(log, "sink")) = 2
    /\ Len(Entries(log, "sink")[1]) = 2
    /\ Entries(log, "sink")[1][2].patient_id = Bytes("p")
    /\ Entries(log, "sink")[2][1].patient_id = <<>>
    /\ Entries(log, "sink")[2][1].sample_id = <<>>
    /\ Entries(log, "sink")[2][2].sample_id = Bytes("t")

\* the listeners that speak ASTM
ASTMPrograms == {"astm", "combined", "combined_p1"}

\* the step consumes exactly one byte, an ENQ
ReceivesENQ == prog \in ASTMPrograms /\ received' = received \o <<ENQ>>

\* the step writes exactly one ACK byte and nothing else
WritesOneACK == \E ok \in BOOLEAN : log' = Append(log, <<"write", <<ACK>>, ok>>)

\* C10 as stated: every ENQ received is answered by exactly one ACK byte,
\* whatever the state, in the combined listener also while an HL7 message
\* is open.
EveryENQAcked == [][ReceivesENQ => WritesOneACK]_vars

\* C10 as the code has it: an ENQ received by the ASTM listener, or by the
\* combined listener while no HL7 message is open, is answered by exactly
\* one ACK byte whatever the ASTM frame state, and leaves mode and buffers
\* alone; an ENQ received by the combined listener while an HL7 message is
\* open is appended to the HL7 message buffer and nothing is written.
ENQAckedOutsideHL7 ==
    [][ReceivesENQ =>
        IF inMessage
        THEN /\ log' = log
             /\ inMessage'
             /\ messageBuffer' = Append(messageBuffer, ENQ)
        ELSE /\ WritesOneACK
             /\ ~inMessage'
             /\ frameBuffer' = frameBuffer
             /\ messageBuffer' = messageBuffer]_vars

\* the combined listener got ENQ, VT, ENQ: the first ENQ was answered, the
\* second lies in the open HL7 message
ENQAckedOutsideHL7Witness ==
    /\ prog = "combined"
    /\ received = <<ENQ, VT, ENQ>>
    /\ Outputs(log) = <<<<"write", <<ACK>>>>>>
    /\ inMessage
    /\ messageBuffer = <<ENQ>>

\* the bytes the step consumes
Consumed == SubSeq(received', Len(received) + 1, Len(received'))

\* the bytes that delimit ASTM frames
FrameMarks == {STX, ETX, ETB, EOT}

\* a byte no listener treats as a control byte
DataByte(b) == b \notin FrameMarks \cup {ENQ, VT, FS, LF}

\* the last frame-delimiting byte of s is an ETX or ETB: a frame has ended
\* and no STX has opened the next
AfterFrameEnd(s) ==
    LET K == {i \in 1..Len(s) : s[i] \in FrameMarks}
    IN  K # {} /\ s[NthPos(K, Cardinality(K))] \in {ETX, ETB}

\* the step consumes one ETX or ETB that the listener reads as ASTM
FrameEndStep ==
    prog \in ASTMPrograms /\ ~inMessage /\ Consumed \in {<<ETX>>, <<ETB>>}

\* the step writes one ACK byte, then hands the frame buffer to
\* processASTMFrame once, whose only further effect is at most one sink call
AckThenFrame ==
    /\ Len(log') \in {Len(log) + 2, Len(log) + 3}
    /\ SubSeq(log', 1, Len(log)) = log
    /\ log'[Len(log) + 1][1] = "write"
    /\ log'[Len(log) + 1][2] = <<ACK>>
    /\ log'[Len(log) + 2] = <<"astm", frameBuffer, TRUE>>
    /\ Len(log') = Len(log) + 3 => log'[Len(log) + 3][1] = "sink"

\* the step consumes only data bytes, read as ASTM, after a frame has ended
DataAfterFrameEnd ==
    /\ prog \in ASTMPrograms /\ ~inMessage
    /\ AfterFrameEnd(received)
    /\ Consumed # <<>>
    /\ \A i \in 1..Len(Consumed) : DataByte(Consumed[i])

\* C11: on every ETX or ETB the ASTM session writes exactly one ACK byte and
\* then emits exactly one CompletedFrame holding the accumulated frame
\* buffer, the ACK before the frame is parsed or forwarded; and the framer is
\* IDLE afterwards: data bytes that follow without an STX are discarded, not
\* appended to the frame buffer.
AckFrameThenIdle ==
    [][/\ FrameEndStep => AckThenFrame
       /\ DataAfterFrameEnd => frameBuffer' = frameBuffer]_vars

\* a log entry that records a completed message or frame
MessageEntry(e) == e[1] \in {"hl7", "astm"}

\* the places of the log entries made while the message logged at place k
\* was processed: those after k and before the next message or frame
OwnEntries(lg, k) ==
    {j \in (k + 1)..Len(lg) : \A i \in (k + 1)..j : ~MessageEntry(lg[i])}

\* a write of an MLLP-wrapped text
MLLPWrite(e) == e[1] = "write" /\ Head(e[2]) = VT

\* C12: for every completed HL7 message, the write of the MLLP-wrapped ACK
\* to the transport comes before the sink is called with that message's
\* batch.
AckBeforeSink ==
    \A k \in 1..Len(log) :
        log[k][1] = "hl7" =>
            \A i, j \in OwnEntries(log, k) :
                (MLLPWrite(log[i]) /\ log[j][1] = "sink") => i < j

\* a message with a usable MSH segment and an OBX segment was completed:
\* its ACK was written, then its batch forwarded
AckBeforeSinkWitness ==
    /\ prog = "tcp"
    /\ received = <<VT>> \o MsgFull \o <<FS>>
    /\ Len(log) = 3
    /\ MLLPWrite(log[2])
    /\ log[3][1] = "sink"

\* the bytes of s at the places K, in order
Pick(s, K) == [n \in 1..Cardinality(K) |-> s[NthPos(K, n)]]

\* the places of the end bytes of s that complete an HL7 message: an FS with
\* a VT before it and no FS in between
ClosingFS(s) ==
    {i \in 1..Len(s) :
        /\ s[i] = FS
        /\ \E j \in 1..(i - 1) :
            s[j] = VT /\ \A m \in (j + 1)..(i - 1) : s[m] # FS}

\* the payload completed by the end byte at place i: the bytes after the
\* last VT before i, the LF bytes left out unless the listener keeps them
PayloadAt(s, i, keepLF) ==
    Pick(s, {m \in 1..(i - 1) :
                /\ \E j \in 1..(m - 1) : s[j] = VT
                /\ \A n \in m..(i - 1) : s[n] # VT
                /\ keepLF \/ s[m] # LF})

\* the places of the bytes of s that complete an ASTM frame
FrameEnds(s) == {i \in 1..Len(s) : s[i] \in {ETX, ETB}}

\* the frame completed by the byte at place i as StartASTMListener builds
\* it: the bytes after the last STX before i that are no control bytes
FrameAt(s, i) ==
    Pick(s, {m \in 1..(i - 1) :
                /\ s[m] \notin FrameMarks \cup {ENQ}
                /\ \A n \in (m + 1)..(i - 1) : s[n] # STX})

\* the messages or frames completed by the bytes s, in arrival order
CompletedTexts(p, s) ==
    IF p = "astm"
    THEN [n \in 1..Cardinality(FrameEnds(s)) |->
              FrameAt(s, NthPos(FrameEnds(s), n))]
    ELSE [n \in 1..Cardinality(ClosingFS(s)) |->
              PayloadAt(s, NthPos(ClosingFS(s), n), p = "hl7_p0")]

\* the messages and frames the log records, in order
MessageTexts(lg) == Pick(lg, {k \in 1..Len(lg) : MessageEntry(lg[k])})

\* the entries after the HL7 message logged at place k are its own ACK
\* write and its own batch, and then the next message
OwnHL7Block(p, lg, k, t) ==
    LET hasWrite == k < Len(lg) /\ lg[k + 1][1] = "write"
        j == IF hasWrite THEN k + 2 ELSE k + 1
    IN  /\ hasWrite =>
              lg[k + 1][2]
                = <<VT>> \o generateHL7ACK(Gen(p), lg[k][2], t) \o <<FS, CR>>
        /\ generateHL7ACK(Gen(p), lg[k][2], t) # <<>> => hasWrite
        /\ IF parseHL7(Gen(p), lg[k][2], t) # <<>>
           THEN /\ j <= Len(lg)
                /\ lg[j][1] = "sink"
                /\ lg[j][2] = parseHL7(Gen(p), lg[k][2], t)
                /\ j < Len(lg) => lg[j + 1][1] = "hl7"
           ELSE j <= Len(lg) => lg[j][1] = "hl7"

\* the ASTM frame logged at place k comes right after its ACK byte and right
\* before its own batch
OwnASTMBlock(lg, k, t) ==
    /\ k > 1
    /\ lg[k - 1][1] = "write"
    /\ lg[k - 1][2] = <<ACK>>
    /\ IF parseASTM(lg[k][2], t) # <<>>
       THEN /\ k < Len(lg)
            /\ lg[k + 1][1] = "sink"
            /\ lg[k + 1][2] = parseASTM(lg[k][2], t)
       ELSE k < Len(lg) => lg[k + 1][1] # "sink"

\* C13: within one connection the messages / frames are processed and
\* acknowledged in arrival order.  Whatever bytes the TCP handler, a serial
\* HL7 listener or the ASTM listener has consumed, the messages it has
\* processed are exactly those the consumed bytes complete, in order (so the
\* processing of a message is over before any byte after its end marker is
\* consumed), and each is followed (for ASTM, preceded) by its own ACK and
\* followed by its own batch before the next message.
ProcessedInArrivalOrder ==
    prog \in {"tcp", "hl7", "hl7_p0", "astm"} =>
        /\ [n \in 1..Len(MessageTexts(log)) |-> MessageTexts(log)[n][2]]
             = CompletedTexts(prog, received)
        /\ \A k \in 1..Len(log) :
            /\ log[k][1] = "hl7" => OwnHL7Block(prog, log, k, now)
            /\ log[k][1] = "astm" => OwnASTMBlock(log, k, now)

\* two messages were completed on one TCP connection: the log holds the
\* first message, its ACK and its batch, then the second with its own
ProcessedInArrivalOrderWitness ==
    /\ prog = "tcp"
    /\ received = <<VT>> \o MsgFull \o <<FS, CR>> \o <<VT>> \o MsgFull
                      \o <<FS, CR>>
    /\ Len(log) = 6
    /\ log[1][1] = "hl7" /\ log[2][1] = "write" /\ log[3][1] = "sink"
    /\ log[4][1] = "hl7" /\ log[5][1] = "write" /\ log[6][1] = "sink"

\* the records the parser of the listener extracts from the logged message e
ParsedOf(p, e, t) ==
    IF e[1] = "hl7" THEN parseHL7(Gen(p), e[2], t) ELSE parseASTM(e[2], t)

\* the sink calls made for the message logged at place k
SinkCalls(lg, k) == {j \in OwnEntries(lg, k) : lg[j][1] = "sink"}

\* C14: the sink is invoked exactly once per completed message / frame that
\* parses to at least one record, with all of its records in parse order,
\* and never otherwise: no sink call precedes the first message, no batch is
\* empty, a message without records has no sink call, and a message with
\* records has exactly one, carrying exactly its records.
OneBatchPerMessage ==
    /\ \A j \in 1..Len(log) :
        log[j][1] = "sink" =>
            /\ log[j][2] # <<>>
            /\ \E k \in 1..(j - 1) : MessageEntry(log[k])
    /\ \A k \in 1..Len(log) :
        MessageEntry(log[k]) =>
            IF ParsedOf(prog, log[k], now) = <<>>
            THEN SinkCalls(log, k) = {}
            ELSE /\ Cardinality(SinkCalls(log, k)) = 1
                 /\ \A j \in SinkCalls(log, k) :
                        log[j][2] = ParsedOf(prog, log[k], now)

\* the ASTM listener completed an empty frame and then one with two result
\* records: no sink call for the first, one carrying both records for the
\* second
OneBatchPerMessageWitness ==
    /\ prog = "astm"
    /\ received = <<ETX>> \o FrameA
    /\ Len(log) = 5
    /\ log[2] = <<"astm", <<>>, TRUE>>
    /\ log[3][1] = "write"
    /\ log[4][1] = "astm"
    /\ log[5][1] = "sink" /\ Len(log[5][2]) = 2

\* a sink call made in this step failed
SinkFails ==
    \E j \in (Len(log) + 1)..Len(log') : log'[j][1] = "sink" /\ ~log'[j][3]

\* the step left the session as st: the mode, the buffers, and what was
\* emitted, written and forwarded, whatever became of each write and call
LeavesSession(st) ==
    /\ inMessage' = st.inMessage
    /\ messageBuffer' = st.messageBuffer
    /\ frameBuffer' = st.frameBuffer
    /\ Outputs(log') = Outputs(st.log)

\* the step is, but for the outcome of its sink calls, the step the listener
\* takes on the same bytes when every sink call succeeds
AsIfForwarded ==
    \E w \in BOOLEAN :
        LeavesSession(ReadLoopBody(prog, Session, Consumed,
                                   [wok |-> w, sok |-> TRUE, t |-> now]))

\* C15: a failed forward is only logged.  A step in which a sink call fails
\* leaves the worker running and leaves the mode, the buffers and the
\* sequence of emitted messages, ACK writes and sink calls exactly as the
\* same step with a successful forward does: the batch is offered once and
\* not again, and what the framer does with later bytes is unaffected.
FailedForwardOnlyLogged ==
    [][SinkFails => (alive' = alive /\ AsIfForwarded)]_vars

\* a forward failed in the serial HL7 listener and the next message on the
\* same port was emitted, acknowledged and forwarded
FailedForwardOnlyLoggedWitness ==
    /\ prog = "hl7"
    /\ alive
    /\ received = <<VT>> \o MsgFull \o <<FS, CR>> \o <<VT>> \o MsgFull
                      \o <<FS, CR>>
    /\ Len(log) = 6
    /\ log[3][1] = "sink" /\ ~log[3][3]
    /\ log[4][1] = "hl7" /\ log[5][1] = "write" /\ log[6][1] = "sink"
    /\ log[6][3]

\* C16: round-trip idempotence.  Once a text has been parsed, parsing the
\* same text again, at whatever later reading of the clock, yields the
\* Observation sequence of the first parse, equal in every field including
\* the timestamp.
ReparseIdentical ==
    called = "parseHL7" => parseHL7(gen, message, now) = results

\* the timestamp the fallback rule gives for the trimmed field s when the
\* clock reads t
Fallback(s, t) ==
    IF Len(s) < 8 THEN NowRFC3339(t)
    ELSE IF Len(s) >= 14 /\ ParsesAsDateTime(SubSeq(s, 1, 14))
    THEN FormatRFC3339(SubSeq(s, 1, 8), SubSeq(s, 9, 14))
    ELSE IF ParsesAsDate(SubSeq(s, 1, 8))
    THEN FormatRFC3339(SubSeq(s, 1, 8), Midnight)
    ELSE NowRFC3339(t)

\* parseHL7 is applied in this step, by a generation that has
\* parseHL7DateTime
ParsesWithDateTime ==
    called = "none" /\ called' = "parseHL7" /\ gen \in {"main", "p0"}

\* C17: timestamp fallback.  With s the trimmed field 14 of an OBX segment,
\* the timestamp of its Observation is the current time if s has fewer than
\* 8 characters; else the instant its first 14 characters denote when s has
\* at least 14 and they are a valid YYYYMMDDHHMMSS; else the date its first
\* 8 characters denote when they are a valid YYYYMMDD; else the current
\* time.  Every OBX segment yields its Observation whatever its timestamp.
TimestampFallback ==
    [][ParsesWithDateTime =>
          /\ Len(results') = Cardinality(PlacesOf(Split(message, CR), OBX))
          /\ \A j \in 1..Len(results') :
                results'[j].timestamp
                  = Fallback(TrimSpace(FieldAt(
                        Split(message, CR)[NthPos(PlacesOf(Split(message, CR),
                                                           OBX), j)], 14)),
                             now)]_vars

\* component k (counted from 0) of a caret-delimited field, empty when absent
ComponentAt(field, k) ==
    IF k < Len(Split(field, CARET)) THEN Split(field, CARET)[k + 1] ELSE <<>>

\* the Observation o is the one of the OBX segment seg: each value is the
\* segment's field at its index, empty when the segment is too short
ObservationOf(g, o, seg) ==
    /\ o.test_code = ComponentAt(FieldAt(seg, 3), 0)
    /\ o.test_name = ComponentAt(FieldAt(seg, 3), 1)
    /\ o.value = FieldAt(seg, 5)
    /\ o.units = FieldAt(seg, 6)
    /\ g # "p1" =>
          /\ o.observation_id = FieldAt(seg, 1)
          /\ o.value_type = FieldAt(seg, 2)
          /\ o.reference_range = FieldAt(seg, 7)
          /\ o.abnormal_flags = FieldAt(seg, 8)
          /\ o.result_status = FieldAt(seg, 11)

\* C18: the HL7 parser is total and emits exactly one Observation per OBX
\* segment, in segment order.  The j-th Observation carries the fields of
\* the j-th segment whose type is OBX, with the empty string for every
\* field the segment is too short to have; empty segments and segments of
\* other types yield no Observation and stop nothing.
OnePerOBX ==
    called = "parseHL7" =>
        /\ Len(results) = Cardinality(PlacesOf(Split(message, CR), OBX))
        /\ \A j \in 1..Len(results) :
              ObservationOf(gen, results[j],
                            Split(message, CR)[NthPos(
                                PlacesOf(Split(message, CR), OBX), j)])

\* an OBX segment with two fields, a segment of unknown type, and a full OBX
\* segment: two Observations, the first with empty values
OnePerOBXWitness ==
    /\ called = "parseHL7"
    /\ message = Bytes("OBX|1") \o <<CR>> \o Bytes("ZZZ|9|OBX") \o <<CR>>
                     \o Bytes("OBX|2||K^k||7|u")
    /\ Len(results) = 2
    /\ results[1].value = <<>> /\ results[1].test_code = <<>>
    /\ results[2].value = Bytes("7") /\ results[2].test_name = Bytes("k")

\* a is an MSH segment and an MSA segment separated by one CR
TwoSegments(a) ==
    /\ Len(Split(a, CR)) = 2
    /\ HasPrefix(Split(a, CR)[1], MSH \o <<PIPE>>)
    /\ HasPrefix(Split(a, CR)[2], LitMSA \o <<PIPE>>)

\* the writes of an MLLP envelope made for the message logged at place k
EnvelopeWrites(lg, k) == {j \in OwnEntries(lg, k) : MLLPWrite(lg[j])}

\* C19: every ACK transmitted for an HL7 message is written as the byte VT,
\* the text generateHL7ACK built for that message, which is an MSH and an
\* MSA segment separated by a single CR, and the bytes FS and CR, in a
\* single write: one write per message, carrying the whole envelope.
AckEnvelope ==
    \A k \in 1..Len(log) :
        log[k][1] = "hl7" =>
            /\ Cardinality(EnvelopeWrites(log, k)) <= 1
            /\ \A j \in EnvelopeWrites(log, k) :
                /\ log[j][2]
                     = <<VT>> \o generateHL7ACK(Gen(prog), log[k][2], now)
                          \o <<FS, CR>>
                /\ TwoSegments(generateHL7ACK(Gen(prog), log[k][2], now))

\* the session of the same listener served the bytes alone
ServedAlone(bytes) == OnePerRead("tcp", InitialSession, bytes, 1, now)

\* two sessions in the same mode, with the same buffer, that emitted, wrote
\* and forwarded the same
SameSession(a, b) ==
    /\ a.inMessage = b.inMessage
    /\ a.messageBuffer = b.messageBuffer
    /\ Outputs(a.log) = Outputs(b.log)

\* C20: framer state is never shared across sessions.  However the bytes of
\* the connections the server serves concurrently are interleaved, the mode
\* and buffer of each connection and the messages, ACKs and batches it has
\* produced are exactly those of a worker served that connection's bytes
\* alone.
SessionsIsolated ==
    \A c \in Conns : SameSession(conns[c].session,
                                 ServedAlone(conns[c].received))

\* two connections are open at once, each inside a message of its own with
\* bytes still buffered, the second having completed a message before
SessionsIsolatedWitness ==
    /\ conns[1].status = "open" /\ conns[2].status = "open"
    /\ conns[1].session.inMessage /\ conns[1].rdbuf # <<>>
    /\ conns[2].session.inMessage /\ conns[2].rdbuf # <<>>
    /\ conns[1].session.messageBuffer # conns[2].session.messageBuffer
    /\ Len(conns[2].session.log) > 0

\* C21: closing the transport terminates the worker.  Once a read has
\* returned EOF or an error that is no timeout, the worker has stopped, and
\* from then on it consumes no byte, emits no message, writes no ACK and
\* makes no sink call.
ReadErrorTerminates ==
    [][/\ failed' => ~alive'
       /\ failed => (received' = received /\ log' = log)]_vars

\* C22: an unreachable or unresponsive sink never blocks the worker
\* indefinitely.  Every sink call returns, with a response, an error or the
\* expiry of the client's timer, and the worker is back in its read loop.
SinkCallReturns == (worker.pc = "call") ~> (worker.pc = "read")

\* the server stayed silent for a call, the call returned when the timer
\* expired, and the worker reads again
SinkCallReturnsWitness ==
    /\ worker.pc = "read"
    /\ worker.server = "silent"
    /\ worker.elapsed = ClientTimeout
    /\ Len(worker.outcomes) >= 1
    /\ worker.outcomes[Len(worker.outcomes)] = "timeout"

\* the last byte consumed so far is an FS that completed an HL7 message, and
\* this step consumes a CR
CRAfterEnd ==
    /\ Consumed = <<CR>>
    /\ Len(received) \in ClosingFS(received)

\* the step leaves the mode and both buffers alone and emits, writes and
\* forwards nothing
NoOp ==
    /\ inMessage' = inMessage
    /\ messageBuffer' = messageBuffer
    /\ frameBuffer' = frameBuffer
    /\ log' = log

\* C23: a CR that directly follows the FS that completed an HL7 message is
\* discarded: it changes no payload already emitted, it is appended neither
\* to the HL7 message buffer nor to the ASTM frame buffer, and it leaves the
\* mode as it is.
CRAfterEndDiscarded == [][CRAfterEnd => NoOp]_vars

\* the payloads of the HL7 messages the bytes s complete, in order, each the
\* bytes between its start and end markers without the LF bytes
PayloadsWithoutLF(s) ==
    [n \in 1..Cardinality(ClosingFS(s)) |->
        PayloadAt(s, NthPos(ClosingFS(s), n), FALSE)]

\* C24: inside an open HL7 message every LF is discarded and every CR is
\* appended.  In every MLLP framer (TCP handler, serial HL7 listeners,
\* combined listeners) the payloads emitted so far are, in order, the bytes
\* between the start and end markers of each completed message with all LF
\* bytes removed.
LFDiscardedCRKept ==
    prog # "astm" => Entries(log, "hl7") = PayloadsWithoutLF(received)

\* this step consumes an end byte while the MLLP framer is idle
StrayEnd == prog # "astm" /\ ~inMessage /\ Consumed = <<FS>>

\* the step leaves the MLLP framer's mode and buffer alone and emits, writes
\* and forwards nothing
MLLPNoOp ==
    /\ inMessage' = inMessage
    /\ messageBuffer' = messageBuffer
    /\ log' = log

\* two sessions whose MLLP framers stand alike and that emitted, wrote and
\* forwarded the same
SameFraming(a, b) ==
    /\ a.inMessage = b.inMessage
    /\ a.messageBuffer = b.messageBuffer
    /\ Outputs(a.log) = Outputs(b.log)

\* a well-formed message that follows is framed after the step as before it
NextFramedAlike ==
    SameFraming(
        ReadLoopBody(prog, Session', <<VT>> \o ConnMsg \o <<FS, CR>>,
                     Succeeding(now)),
        ReadLoopBody(prog, Session, <<VT>> \o ConnMsg \o <<FS, CR>>,
                     Succeeding(now)))

Restart == prog # "astm" /\ inMessage /\ Consumed = <<VT>>

\* the step empties the message buffer, keeps the message open and emits,
\* writes and forwards nothing
Restarted ==
    /\ inMessage'
    /\ messageBuffer' = <<>>
    /\ log' = log

\* the n-th message emitted holds no byte received before the most recent
\* start byte: it is the bytes between that start byte and the end byte,
\* with or without the LF bytes
AfterLastStart(n) ==
    Entries(log, "hl7")[n]
        \in {PayloadAt(received, NthPos(ClosingFS(received), n), TRUE),
             PayloadAt(received, NthPos(ClosingFS(received), n), FALSE)}

\* C26: a start byte received while a message is open restarts
\* accumulation.  The step discards the partial buffer, produces no message
\* and no ACK, and leaves the message open; and every message emitted holds
\* only bytes received after the most recent start byte before its end byte,
\* one message per completing end byte.
StartRestarts ==
    /\ [][Restart => Restarted]_vars
    /\ [](prog # "astm" =>
            /\ Len(Entries(log, "hl7")) = Cardinality(ClosingFS(received))
            /\ \A n \in 1..Len(Entries(log, "hl7")) : AfterLastStart(n))

\* the serial HL7 listener received a start byte and a partial message, then
\* a whole frame: the message of the frame alone was emitted
StartRestartsWitness ==
    /\ prog = "hl7"
    /\ received = <<VT>> \o MsgBare \o <<VT>> \o MsgFull \o <<FS, CR>>
    /\ Entries(log, "hl7") = <<MsgFull>>


\* no ASTM frame is open after the bytes s: no STX has been received since
\* the last ETX, ETB or EOT, or none at all
Idle(s) ==
    LET K == {i \in 1..Len(s) : s[i] \in FrameMarks}
    IN  K = {} \/ s[NthPos(K, Cardinality(K))] # STX

\* the step consumes only CR and ordinary data bytes, read as ASTM, while
\* no frame is open
DataWhileIdle ==
    /\ prog \in ASTMPrograms /\ ~inMessage
    /\ Idle(received)
    /\ Consumed # <<>>
    /\ \A i \in 1..Len(Consumed) : DataByte(Consumed[i])

\* the bytes of s before place i that lie inside the frame which the byte at
\* i closes: those after the last STX before i, when no ETX, ETB or EOT
\* lies between that STX and i
InsideFrame(s, i) ==
    Pick(s, {m \in 1..(i - 1) :
                /\ s[m] \notin FrameMarks \cup {ENQ}
                /\ \E j \in 1..(m - 1) :
                       /\ s[j] = STX
                       /\ \A n \in (j + 1)..(i - 1) : s[n] \notin FrameMarks})

\* C27: in the ASTM framer CR and ordinary data bytes are appended to the
\* frame buffer only while a frame is open; received while IDLE they are
\* discarded, so every emitted CompletedFrame holds only bytes received
\* inside an STX...ETX/ETB frame.
OnlyFramedBytes ==
    /\ [][DataWhileIdle => frameBuffer' = frameBuffer]_vars
    /\ [](prog = "astm" =>
            \A n \in 1..Len(Entries(log, "astm")) :
                n <= Cardinality(FrameEnds(received)) =>
                    Entries(log, "astm")[n]
                        = InsideFrame(received,
                                      NthPos(FrameEnds(received), n)))



\* the bytes s with every ETB replaced by ETX and every ETX by ETB
SwapEnds(s) ==
    [i \in 1..Len(s) |-> IF s[i] = ETB THEN ETX
                         ELSE IF s[i] = ETX THEN ETB ELSE s[i]]

\* the step consumes bytes that the listener reads as ASTM, an ETX or ETB
\* among them
ReadsFrameEnd ==
    /\ prog \in ASTMPrograms /\ ~inMessage
    /\ \A i \in 1..Len(Consumed) : Consumed[i] # VT
    /\ \E i \in 1..Len(Consumed) : Consumed[i] \in {ETX, ETB}

\* had the bytes of the step arrived with ETB and ETX exchanged, the same
\* ACK bytes would have been written, the same frames emitted, the same
\* batches handed to the sink, and the same buffers left
SwapUnnoticed ==
    \A env \in Envs(now) :
        ReadLoopBody(prog, Session, SwapEnds(Consumed), env)
            = ReadLoopBody(prog, Session, Consumed, env)

\* C28: the ASTM framer treats ETB exactly as ETX: replacing any ETB of the
\* input by ETX, or any ETX by ETB, leaves the ACK bytes written, the frames
\* emitted, the Results produced and the sink calls unchanged.  Every read
\* carries at most one such byte, and the session after the read is the
\* same either way, so the equality extends to whole streams.
ETBAsETX == [][ReadsFrameEnd => SwapUnnoticed]_vars

\* the ASTM listener read an intermediate frame closed by ETB: it wrote one
\* ACK, emitted the frame and handed its batch to the sink
ETBAsETXWitness ==
    /\ prog = "astm"
    /\ received = FrameA
    /\ Len(log) = 3
    /\ log[1][2] = <<ACK>>
    /\ log[2] = <<"astm", SubSeq(FrameA, 2, Len(FrameA) - 1), TRUE>>
    /\ log[3][1] = "sink"



\* the step consumes one EOT that the listener reads as ASTM
EOTStep == prog \in ASTMPrograms /\ ~inMessage /\ Consumed = <<EOT>>

\* the last frame-delimiting byte of s is an EOT
AfterEOT(s) ==
    LET K == {i \in 1..Len(s) : s[i] \in FrameMarks}
    IN  K # {} /\ s[NthPos(K, Cardinality(K))] = EOT

\* the step consumes only data bytes, read as ASTM, after an EOT and before
\* any new STX
DataAfterEOT ==
    /\ prog \in ASTMPrograms /\ ~inMessage
    /\ AfterEOT(received)
    /\ Consumed # <<>>
    /\ \A i \in 1..Len(Consumed) : DataByte(Consumed[i])

\* C29: an EOT causes no payload action: nothing is written, no frame is
\* emitted, the sink is not called; and the framer is IDLE afterwards: data
\* bytes that follow the EOT without a new STX are not accumulated into any
\* frame.
EOTThenIdle ==
    [][/\ EOTStep => log' = log
       /\ DataAfterEOT => frameBuffer' = frameBuffer]_vars



\* the step consumes an STX that the listener reads as ASTM, and after it
\* only data bytes
STXStep ==
    /\ prog \in ASTMPrograms /\ ~inMessage
    /\ Consumed # <<>>
    /\ Consumed[1] = STX
    /\ \A i \in 2..Len(Consumed) : DataByte(Consumed[i])

\* the bytes of s after its last STX before place i that the ASTM switch
\* stores: all but ENQ and the frame-delimiting bytes
SinceLastSTX(s, i) ==
    LET K == {j \in 1..(i - 1) : s[j] = STX}
        last == NthPos(K, Cardinality(K))
    IN  Pick(s, {m \in (last + 1)..(i - 1) : s[m] \notin FrameMarks \cup {ENQ}})

\* C30: an STX resets the frame buffer whatever the current state: what was
\* accumulated is discarded, no CompletedFrame is emitted and nothing is
\* written; and an ETX or ETB that follows an STX emits only the bytes
\* received after the most recent STX.
STXResets ==
    /\ [][STXStep => /\ frameBuffer' = Tail(Consumed)
                     /\ log' = log]_vars
    /\ [](prog = "astm" =>
            \A n \in 1..Len(Entries(log, "astm")) :
                LET i == NthPos(FrameEnds(received), n)
                IN  (\E j \in 1..(i - 1) : received[j] = STX) =>
                        Entries(log, "astm")[n] = SinceLastSTX(received, i))

\* the ASTM listener got an STX and two records, then a whole new frame: the
\* two records were dropped at the second STX and the ETX emitted the new
\* frame alone
STXResetsWitness ==
    /\ prog = "astm"
    /\ received = <<STX>> \o RecText \o FrameB
    /\ frameBuffer = SubSeq(FrameB, 2, Len(FrameB) - 1)
    /\ Entries(log, "astm") = <<SubSeq(FrameB, 2, Len(FrameB) - 1)>>
    /\ Entries(log, "write") = <<<<ACK>>>>



\* the last element of a non-empty sequence
Last(s) == s[Len(s)]

\* s begins with the bytes t
StartsWith(s, t) == Len(t) <= Len(s) /\ SubSeq(s, 1, Len(t)) = t

\* the step consumes one ETX or ETB, read as ASTM, after a frame has been
\* emitted and before any new STX
SecondFrameEnd ==
    /\ FrameEndStep
    /\ AfterFrameEnd(received)
    /\ Entries(log, "astm") # <<>>
    /\ Last(Entries(log, "astm")) # <<>>

\* C32: no frame payload is delivered twice: after an ETX or ETB has emitted
\* a CompletedFrame, a further ETX or ETB with no STX in between does not
\* emit that frame's content again, and the sink does not get the same
\* batch again.
NoFrameTwice ==
    [][SecondFrameEnd =>
        /\ ~StartsWith(Last(Entries(log', "astm")),
                       Last(Entries(log, "astm")))
        /\ Entries(log, "sink") # <<>> /\ Len(log') > Len(log) =>
              (Last(log')[1] = "sink" =>
                  Last(log')[2] # Last(Entries(log, "sink")))]_vars



\* the reference field of the MSA segment of the acknowledgment a
AckReference(a) ==
    LET segs == Split(a, CR)
        msa == IF Len(segs) >= 2 THEN Split(segs[2], PIPE) ELSE <<>>
    IN  IF Len(msa) >= 3 THEN msa[3] ELSE <<>>

\* every Observation of the batch b carries the control ID id
AllCarry(b, id) == \A k \in 1..Len(b) : b[k].message_id = id

\* C33: for every message for which an ACK is produced, the control ID in
\* the MSA segment of the ACK equals the control ID attached to every
\* Observation parsed from the same message, also when the message has
\* several MSH segments or its MSH segment is not the first segment.
SameControlID ==
    (called = "generateHL7ACK" /\ ack # <<>>) =>
        AllCarry(parseHL7(gen, message, now), AckReference(ack))



\* C34: every ACK that generateHL7ACK produces carries a non-empty control
\* ID in the reference field of its MSA segment; a message from which no
\* non-empty control ID can be extracted yields no ACK.
AckHasControlID ==
    (called = "generateHL7ACK" /\ ack # <<>>) => AckReference(ack) # <<>>



\* the places of the writes of an MLLP envelope in the log
AckWrites(lg) == {j \in 1..Len(lg) : MLLPWrite(lg[j])}

\* the step completes no HL7 message
CompletesNone ==
    Cardinality(ClosingFS(received')) = Cardinality(ClosingFS(received))

\* C35: the number of HL7 ACKs written never exceeds the number of messages
\* completed by an end byte: no ACK is written while a message is still
\* open, and at most one ACK is written per completed message.
AcksWithinCompleted ==
    /\ [][(prog # "astm" /\ CompletesNone) =>
              Cardinality(AckWrites(log')) = Cardinality(AckWrites(log))]_vars
    /\ [](prog # "astm" =>
            /\ Cardinality(AckWrites(log))
                   <= Cardinality(ClosingFS(received))
            /\ Len(Entries(log, "hl7")) = Cardinality(ClosingFS(received))
            /\ \A k \in 1..Len(log) :
                   log[k][1] = "hl7" =>
                       Cardinality(EnvelopeWrites(log, k)) <= 1)

\* two whole messages with a usable MSH segment arrived, two ACKs were
\* written, and a third message is open
AcksWithinCompletedWitness ==
    /\ prog = "hl7"
    /\ Cardinality(ClosingFS(received)) = 2
    /\ Cardinality(AckWrites(log)) = 2
    /\ inMessage
    /\ received[Len(received)] = VT



\* the acknowledgment code of the MSA segment of the enveloped ACK w
AckCode(w) ==
    LET segs == Split(w, CR)
        msa == IF Len(segs) >= 2 THEN Split(segs[2], PIPE) ELSE <<>>
    IN  IF Len(msa) >= 2 THEN msa[2] ELSE <<>>

\* C36: acknowledgment does not depend on extraction or delivery: every
\* completed HL7 message with a usable MSH segment is acknowledged with AA,
\* whether or not it has an OBX segment and whether or not the sink call
\* that follows succeeds; and a failed write of the ACK does not keep the
\* message's non-empty batch from being forwarded.
AckIndependent ==
    called = "processHL7Message" =>
        /\ UsableMSH(message) =>
              /\ Len(Entries(log, "write")) = 1
              /\ Head(Entries(log, "write")[1]) = VT
              /\ AckCode(Entries(log, "write")[1]) = LitAA
        /\ parseHL7(gen, message, now) # <<>> =>
              \E t \in 0..now :
                  Entries(log, "sink") = <<parseHL7(gen, message, t)>>

\* the write of the ACK of a message with a usable MSH segment and an OBX
\* segment failed, and the batch went to the sink, which failed too
AckIndependentWitness ==
    /\ called = "processHL7Message"
    /\ UsableMSH(message)
    /\ Len(log) = 3
    /\ log[2][1] = "write" /\ ~log[2][3]
    /\ log[3][1] = "sink" /\ ~log[3][3]



\* the single bytes written to the transport, in order
HandshakeReplies(lg) ==
    Pick(Entries(lg, "write"),
         {k \in 1..Len(Entries(lg, "write")) :
              Len(Entries(lg, "write")[k]) = 1})

\* C37: the gateway never writes a NAK byte: whatever bytes arrive, the only
\* single-byte handshake reply that an ASTM or combined listener writes is
\* ACK.
NeverNAK ==
    \A k \in 1..Len(HandshakeReplies(log)) :
        HandshakeReplies(log)[k] = <<ACK>> /\ HandshakeReplies(log)[k] # <<NAK>>

\* the ASTM listener got an ETX with no frame before it, then an ENQ and
\* another ETX: it answered each of the three with ACK
NeverNAKWitness ==
    /\ prog = "astm"
    /\ received = <<ETX, ENQ, ETX>>
    /\ frameBuffer = <<>>
    /\ HandshakeReplies(log) = <<<<ACK>>, <<ACK>>, <<ACK>>>>



\* the listeners that multiplex HL7 and ASTM on one port
CombinedPrograms == {"combined", "combined_p1"}

\* place m of s lies in an MLLP block: from a start byte up to and with the
\* first end byte after it
InHL7(s, m) ==
    \E j \in 1..m : s[j] = VT /\ \A n \in j..(m - 1) : s[n] # FS

\* place m of s holds the CR that closes an MLLP block after its end byte
TrailerCR(s, m) == m > 1 /\ s[m] = CR /\ s[m - 1] = FS /\ InHL7(s, m - 1)

\* place m of s belongs to the ASTM stream
AstmPlace(s, m) == ~InHL7(s, m) /\ ~TrailerCR(s, m)

\* the places of the bytes of the ASTM stream that complete a frame
AstmFrameEnds(s) ==
    {i \in 1..Len(s) : AstmPlace(s, i) /\ s[i] \in {ETX, ETB}}

\* the bytes of the ASTM stream that the frame completed at place i is made
\* of: those since the last STX of the ASTM stream that the switch stores
OwnFrameBytes(p, s, i) ==
    Pick(s, {m \in 1..(i - 1) :
                /\ AstmPlace(s, m)
                /\ s[m] \notin FrameMarks \cup {ENQ}
                /\ p = "combined_p1" => s[m] # LF
                /\ \A n \in (m + 1)..(i - 1) :
                       AstmPlace(s, n) => s[n] # STX})

\* an STX of the ASTM stream opened the frame completed at place i
Opened(s, i) == \E j \in 1..(i - 1) : AstmPlace(s, j) /\ s[j] = STX

\* the step consumes bytes of an open HL7 message, its end byte not among them
InsideHL7 ==
    /\ prog \in CombinedPrograms /\ inMessage
    /\ \A i \in 1..Len(Consumed) : Consumed[i] \notin {VT, FS}

\* the step consumes bytes outside any HL7 message, no start byte among them
OutsideHL7 ==
    /\ prog \in CombinedPrograms /\ ~inMessage
    /\ \A i \in 1..Len(Consumed) : Consumed[i] # VT

\* C38: in the combined framer the two protocols do not interfere: bytes
\* between an HL7 start byte and its end byte never change the ASTM frame
\* buffer and cause no ASTM reply and no frame; bytes read as ASTM never
\* change the HL7 message buffer; and an ASTM frame interrupted by a complete
\* HL7 message, VT to FS CR, is emitted with exactly its own bytes.
ProtocolsSeparate ==
    /\ [][/\ InsideHL7 => (frameBuffer' = frameBuffer /\ log' = log)
          /\ OutsideHL7 => (messageBuffer' = messageBuffer /\ ~inMessage')
         ]_vars
    /\ [](prog \in CombinedPrograms =>
            \A n \in 1..Len(Entries(log, "astm")) :
                (/\ n <= Cardinality(AstmFrameEnds(received))
                 /\ Opened(received, NthPos(AstmFrameEnds(received), n))) =>
                    Entries(log, "astm")[n]
                        = OwnFrameBytes(prog, received,
                                        NthPos(AstmFrameEnds(received), n)))



\* the client's session is that of a worker served the bytes of the current
\* connection alone
OwnConnectionOnly ==
    client.pc = "session" =>
        SameSession(client.session, ServedAlone(client.received))

\* the step is a successful dial
Connected == client.pc = "dialing" /\ client'.pc = "session"

\* C39: in client topology, after a session has ended the client always
\* eventually attempts a new connection (as long as MaxDials allows one more
\* attempt), and the new session starts IDLE with an empty buffer: the bytes
\* of a message left incomplete when a connection closed never appear in a
\* message emitted on a later connection.
ClientReconnectsFresh ==
    /\ (client.pc = "sleep" /\ client.dials < MaxDials)
           ~> (client.pc = "dialing")
    /\ [][Connected => /\ ~client'.session.inMessage
                       /\ client'.session.messageBuffer = <<>>
                       /\ client'.session.log = <<>>]_vars
    /\ []OwnConnectionOnly

\* the first connection closed inside a message that held the bytes OBX; on
\* the second connection an end byte arrived first and nothing was emitted
ClientReconnectsFreshWitness ==
    /\ client.conn = 2 /\ client.pc = "session"
    /\ client.left.inMessage
    /\ client.left.messageBuffer = Bytes("OBX")
    /\ client.received = <<FS>>
    /\ client.session.log = <<>>
    /\ ~client.session.inMessage



\* the step is a read timeout of handleConnection
Gap == timeouts' # timeouts

\* C31: a read timeout while a message is partially received leaves the mode
\* and the buffer as they are and does not end the worker, so the messages
\* completed after the gap are emitted with the payload they would have had
\* without the gap.
GapsTolerated ==
    /\ [][Gap => /\ client'.session = client.session
                 /\ client'.pc = "session"]_vars
    /\ []((timeouts # <<>> /\ client.pc = "session") =>
            Outputs(client.session.log)
                = Outputs(ServedAlone(client.received).log))

\* on the client's first connection the deadline passed after VT and the
\* three payload bytes OBX; the end byte that came later emitted these three
\* bytes
GapsToleratedWitness ==
    /\ client.pc = "session"
    /\ timeouts = <<<<1, 4>>>>
    /\ client.received = <<VT>> \o Bytes("OBX") \o <<FS>>
    /\ Entries(client.session.log, "hl7") = <<Bytes("OBX")>>


====
